---- MODULE Spec2Model ----
(***************************************************************************)
(* Deadline Scraper: the background service worker's persisted collection  *)
(* (background.js) and the handlers that read and write it.                *)
(*                                                                         *)
(* A stored record is a JavaScript object, modelled as a TLA+ record whose *)
(* DOMAIN is the set of keys the object has: an absent key (item.done      *)
(* undefined) is a key outside the DOMAIN.  Instants are whole seconds     *)
(* (the code's milliseconds divided by 1000).                              *)
(***************************************************************************)
EXTENDS Integers, Sequences, FiniteSets, TLC

(***************************************************************************)
(* Bounds and input domains                                                *)
(***************************************************************************)
\* longest SCRAPE_RESULT batch delivered in one message
MaxBatch == 2
\* handlers that may be between their store read and their store write
MaxInFlight == 2
\* handler calls in a run in which calls may overlap
MaxCalls == 3

SecondsPerHour == 60 * 60
SecondsPerDay == 24 * SecondsPerHour

\* record ids ("<source-prefix>-<sanitized link>")
Ids == {"a", "b"}
\* an id no scrape produces, for requests about a record that is not stored
NoSuchId == "zz"
\* what one extraction of an assignment yields for title, course, link and due
\* date (seconds after the first instant of the clock): a full scrape, and a
\* degraded re-scrape after the deadline was moved (every field differs)
Extractions ==
  { [title |-> "HW1", course |-> "CS 101", link |-> "https://x/hw1",
     dueDate |-> 12 * SecondsPerHour],
    [title |-> "HW1 (old)", course |-> "Unknown Course", link |-> "https://x/",
     dueDate |-> 36 * SecondsPerHour] }
\* the instants at which handlers run (the clock only moves forward)
Clock == {0, 18 * SecondsPerHour, 31 * SecondsPerDay}
\* values of settings.notificationHours the options page can send
HoursChoices == {24, 48}
\* a flag of a record: absent, false or true
FlagChoices == {"absent", "false", "true"}
\* done and notificationSent of an incoming record: the extractors send
\* neither; a message for id "a" may carry both
IncomingFlags(id) ==
  IF id = "a" THEN {<<"absent", "absent">>, <<"false", "false">>, <<"true", "true">>}
  ELSE {<<"absent", "absent">>}

(***************************************************************************)
(* JavaScript objects                                                      *)
(***************************************************************************)
\* { ...r, [f]: v }
With(r, f, v) == [k \in DOMAIN r \cup {f} |-> IF k = f THEN v ELSE r[k]]

\* r[f] is truthy (flags are booleans or absent)
Truthy(r, f) == f \in DOMAIN r /\ r[f] = TRUE

\* faulty variant: the second object replaces the first
Spread_Replace(a, b) == b

\* { ...a, ...b }
Spread(a, b) == [k \in DOMAIN a \cup DOMAIN b |-> IF k \in DOMAIN b THEN b[k] ELSE a[k]]

SourceOf(id) == IF id = "a" THEN "Gradescope" ELSE "PrairieLearn"

\* the record an extractor builds (its pastDue key, which the background
\* never reads, travels with the record like title and is left out)
BaseRecord(id, x) ==
  [id |-> id, title |-> x.title, dueDate |-> x.dueDate, course |-> x.course,
   link |-> x.link, source |-> SourceOf(id)]

WithFlag(r, f, c) == IF c = "absent" THEN r ELSE With(r, f, c = "true")

\* every record a SCRAPE_RESULT message may carry
IncomingOf(id) ==
  { WithFlag(WithFlag(BaseRecord(id, x), "done", f[1]), "notificationSent", f[2]) :
      x \in Extractions, f \in IncomingFlags(id) }

IncomingRecords == UNION { IncomingOf(id) : id \in Ids }

Batches == UNION { [1..n -> IncomingRecords] : n \in 0..MaxBatch }

IdsOf(items) == { items[i].id : i \in DOMAIN items }

(***************************************************************************)
(* State                                                                   *)
(***************************************************************************)
VARIABLES
  store,      \* browser.storage.local[STORAGE_KEY]: [items, settings]
  now,        \* the instant new Date() returns
  delivered,  \* ids whose browser.notifications.create resolved in the last step
  request,    \* the message or alarm the last handler was called with
  before,     \* the collection that was stored when the last handler was called
              \* (when handlers overlap: the collection it read)
  sentSince,  \* per id: notificationSent has been true and the record has
              \* stayed stored with the same dueDate ever since
  inflight,   \* handlers between their store read and their store write
  calls,      \* handler calls begun while calls may overlap
  scraped,    \* ids of the batches of the scrape deliveries that completed
  badge,      \* the count the toolbar badge shows (0: the empty badge text)
  effects,    \* what the last handler did besides changing the store and the
              \* badge: the ids it called notifications.create for, whether
              \* it called storage.local.set, whether it called setBadgeText,
              \* whether it sent DATA_UPDATED, what it answered its caller
  parse,      \* the last parseDateString call: parser, fragment, instant of
              \* the call, result
  run,        \* the last run of a content script: the document it read and
              \* the batch it sent
  popup,      \* the popup: the items it loaded, the rows it shows, its snackbar,
              \* whether the last toggle was answered by the background
  tabs        \* the browser's tabs, tabsToCloseAfterScrape, the course flows
              \* of the background and the SCRAPE_RESULT messages under way

\* the variables of the content scripts, the popup and the tabs
cvars == <<parse, run, popup, tabs>>

vars ==
  <<store, now, delivered, request, before, sentSince, inflight, calls, scraped,
    badge, effects, parse, run, popup, tabs>>

NoParse == [parser |-> "none"]

NoRun == [site |-> "none"]

\* the popup is closed
NoPopup == [open |-> FALSE]

\* no tab is open
NoTabs == [open |-> {}]

DEFAULT_SETTINGS == [notificationsEnabled |-> TRUE, notificationHours |-> 24]

DEFAULT_STORAGE == [items |-> <<>>, settings |-> DEFAULT_SETTINGS]

\* getStorageData, the store read succeeding
getStorageData == store

(***************************************************************************)
(* handleScrapeResult                                                      *)
(***************************************************************************)
\* first index of m holding a record with this id, 0 when there is none
IndexOfId(m, id) ==
  IF \E i \in DOMAIN m : m[i].id = id
    THEN CHOOSE i \in DOMAIN m : m[i].id = id /\ \A j \in 1..(i-1) : m[j].id # id
    ELSE 0

\* faulty variant: set() never finds the key, every record is appended
MapSet_AppendAlways(m, item) == Append(m, item)

\* Map.prototype.set on a Map kept in insertion order: an existing key keeps
\* its position, a new key goes last
MapSet(m, item) ==
  LET i == IndexOfId(m, item.id)
  IN IF i = 0 THEN Append(m, item) ELSE [m EXCEPT ![i] = item]

\* faulty variant: the Map starts empty, the stored records are not put in it
MapOfItems_Empty(items) == <<>>

RECURSIVE MapOfItems(_)
\* data.items.forEach(item => itemMap.set(item.id, item))
MapOfItems(items) ==
  IF items = <<>> THEN <<>>
  ELSE MapSet(MapOfItems(SubSeq(items, 1, Len(items) - 1)), items[Len(items)])

\* faulty variant: the incoming record's own flags are stored
PreserveFlag_Never(existingItem, newItem, f) == newItem

\* faulty variant: done is carried forward, notificationSent is not
PreserveFlag_DoneOnly(existingItem, newItem, f) ==
  IF f = "done" /\ Truthy(existingItem, f) THEN With(newItem, f, existingItem[f]) ELSE newItem

\* the flag copied forward only when the existing record's flag is truthy
PreserveFlag(existingItem, newItem, f) ==
  IF Truthy(existingItem, f) THEN With(newItem, f, existingItem[f]) ELSE newItem

\* faulty variant: a matched record is left as stored (no refresh from the scrape)
MergeOne_KeepExisting(itemMap, newItem) ==
  IF \E i \in DOMAIN itemMap : itemMap[i].id = newItem.id
    THEN itemMap
    ELSE Append(itemMap, newItem)

\* the body of newItems.forEach
MergeOne(itemMap, newItem) ==
  LET i == IndexOfId(itemMap, newItem.id)
  IN IF i = 0 THEN MapSet(itemMap, newItem)
     ELSE MapSet(itemMap,
            PreserveFlag(itemMap[i],
              PreserveFlag(itemMap[i], newItem, "notificationSent"), "done"))

RECURSIVE MergeAll(_, _)
MergeAll(itemMap, newItems) ==
  IF newItems = <<>> THEN itemMap
  ELSE MergeAll(MergeOne(itemMap, Head(newItems)), Tail(newItems))

\* where a stable ascending sort puts x among the sorted records s
InsertByDue(s, x) ==
  LET k == Cardinality({ i \in DOMAIN s : s[i].dueDate <= x.dueDate })
  IN SubSeq(s, 1, k) \o <<x>> \o SubSeq(s, k + 1, Len(s))

\* faulty variant: the merged items are stored in Map order
SortByDue_MapOrder(s) == s

RECURSIVE SortByDue(_)
\* mergedItems.sort((a, b) => new Date(a.dueDate) - new Date(b.dueDate)): stable
SortByDue(s) ==
  IF s = <<>> THEN <<>>
  ELSE InsertByDue(SortByDue(SubSeq(s, 1, Len(s) - 1)), s[Len(s)])

\* reconcile(existing, incoming)
Reconcile(existing, newItems) == SortByDue(MergeAll(MapOfItems(existing), newItems))

\* faulty variant: updatedData is built from DEFAULT_STORAGE, not from data
ScrapeUpdate_DefaultSettings(data, newItems) ==
  [items |-> Reconcile(data.items, newItems), settings |-> DEFAULT_SETTINGS]

\* the collection handleScrapeResult writes, having read data
ScrapeUpdate(data, newItems) == [data EXCEPT !.items = Reconcile(data.items, newItems)]

(***************************************************************************)
(* TOGGLE_ITEM_DONE, updateSettings, clearAllData                          *)
(***************************************************************************)
\* faulty variant: the id test is dropped, every record is set
ToggleItems_Every(items, id, done) ==
  [i \in DOMAIN items |-> With(items[i], "done", done)]

ToggleItems(items, id, done) ==
  [i \in DOMAIN items |-> IF items[i].id = id THEN With(items[i], "done", done) ELSE items[i]]

ToggleUpdate(data, id, done) == [data EXCEPT !.items = ToggleItems(data.items, id, done)]

\* the partial settings objects of an UPDATE_SETTINGS message
PartialSettings ==
  { [k \in {} |-> TRUE] } \cup
  { [notificationsEnabled |-> e] : e \in BOOLEAN } \cup
  { [notificationHours |-> h] : h \in HoursChoices } \cup
  { [notificationsEnabled |-> e, notificationHours |-> h] : e \in BOOLEAN, h \in HoursChoices }

SettingsUpdate(data, newSettings) ==
  [data EXCEPT !.settings = Spread(data.settings, newSettings)]

(***************************************************************************)
(* checkAndSendNotifications                                               *)
(***************************************************************************)
\* faulty variant: a record due exactly at the cutoff is not selected
ToNotify_BeforeCutoff(data, t) ==
  { i \in DOMAIN data.items :
      /\ data.items[i].dueDate >= t
      /\ data.items[i].dueDate < t + data.settings.notificationHours * SecondsPerHour
      /\ ~Truthy(data.items[i], "notificationSent") }

\* faulty variant: the filter does not look at notificationSent
ToNotify_IgnoreSent(data, t) ==
  { i \in DOMAIN data.items :
      /\ data.items[i].dueDate >= t
      /\ data.items[i].dueDate <= t + data.settings.notificationHours * SecondsPerHour }

\* faulty variant: a record marked done is not notified
ToNotify_SkipDone(data, t) ==
  { i \in DOMAIN data.items :
      /\ data.items[i].dueDate >= t
      /\ data.items[i].dueDate <= t + data.settings.notificationHours * SecondsPerHour
      /\ ~Truthy(data.items[i], "notificationSent")
      /\ ~Truthy(data.items[i], "done") }

\* indices of data.items selected by the filter
ToNotify(data, t) ==
  { i \in DOMAIN data.items :
      /\ data.items[i].dueDate >= t
      /\ data.items[i].dueDate <= t + data.settings.notificationHours * SecondsPerHour
      /\ ~Truthy(data.items[i], "notificationSent") }

\* faulty variant: the first rejected notifications.create ends the loop
\* with nothing marked
MarkNotified_AbortOnFailure(items, sel, failing) ==
  IF \E j \in sel : items[j].id \in failing THEN items
  ELSE [i \in DOMAIN items |->
          IF i \in sel THEN With(items[i], "notificationSent", TRUE) ELSE items[i]]

\* updatedItems after the loop; failing: ids whose notifications.create rejects
MarkNotified(items, sel, failing) ==
  LET hit == { IndexOfId(items, items[i].id) : i \in { j \in sel : items[j].id \notin failing } }
  IN [i \in DOMAIN items |->
        IF i \in hit THEN With(items[i], "notificationSent", TRUE) ELSE items[i]]

\* faulty variant: the notificationsEnabled test is dropped
TickUpdate_IgnoreEnabled(data, t, failing) ==
  IF ToNotify(data, t) = {} THEN data
  ELSE [data EXCEPT !.items = MarkNotified(data.items, ToNotify(data, t), failing)]

TickUpdate(data, t, failing) ==
  IF ~data.settings.notificationsEnabled \/ ToNotify(data, t) = {}
    THEN data
    ELSE [data EXCEPT !.items = MarkNotified(data.items, ToNotify(data, t), failing)]

\* ids for which notifications.create was called and resolved
TickDelivered(data, t, failing) ==
  IF ~data.settings.notificationsEnabled THEN {}
  ELSE { data.items[i].id : i \in ToNotify(data, t) } \ failing

(***************************************************************************)
(* cleanupOldItems                                                         *)
(***************************************************************************)
RetentionDays == 30

\* faulty variant: a record due exactly 30 days ago is dropped too
FilterRecent_Strict(items, t) ==
  SelectSeq(items, LAMBDA r : r.dueDate > t - RetentionDays * SecondsPerDay)

RECURSIVE FilterRecent(_, _)
FilterRecent(items, t) ==
  IF items = <<>> THEN <<>>
  ELSE IF Head(items).dueDate >= t - RetentionDays * SecondsPerDay
    THEN <<Head(items)>> \o FilterRecent(Tail(items), t)
    ELSE FilterRecent(Tail(items), t)

CleanupUpdate(data, t) ==
  IF Len(FilterRecent(data.items, t)) # Len(data.items)
    THEN [data EXCEPT !.items = FilterRecent(data.items, t)]
    ELSE data

(***************************************************************************)
(* updateBadge, and what each handler does besides its store write         *)
(***************************************************************************)
BadgeHours == 24

\* upcomingItems.length: the filter of updateBadge keeps both ends
BadgeCount(data, t) ==
  Cardinality({ i \in DOMAIN data.items :
                  /\ data.items[i].dueDate >= t
                  /\ data.items[i].dueDate <= t + BadgeHours * SecondsPerHour })

\* updateBadge() reads the collection the handler has just written
updateBadge == badge' = BadgeCount(store', now)

\* reply: what the listener returns to the sender ("none" for an alarm)
NoEffects ==
  [attempted |-> {}, messages |-> {}, wrote |-> FALSE, setBadge |-> FALSE,
   broadcast |-> FALSE, reply |-> "none"]

ScrapeEffects ==
  [NoEffects EXCEPT !.wrote = TRUE, !.setBadge = TRUE, !.broadcast = TRUE, !.reply = "true"]

ToggleEffects == [NoEffects EXCEPT !.wrote = TRUE, !.broadcast = TRUE, !.reply = "true"]

SettingsEffects == [NoEffects EXCEPT !.wrote = TRUE, !.reply = "true"]

ClearEffects == [NoEffects EXCEPT !.wrote = TRUE, !.setBadge = TRUE, !.reply = "true"]

\* ids for which notifications.create was called
TickAttempted(data, t) ==
  IF ~data.settings.notificationsEnabled THEN {}
  ELSE { data.items[i].id : i \in ToNotify(data, t) }

\* Math.round(a / b) for a >= 0: halves round up
RoundDiv(a, b) == (2 * a + b) \div (2 * b)

\* timeMessage for a record due timeUntilDue seconds from now: "Due in n
\* day(s)", "Due in n hour(s)" or "Due soon!"
TimeMessage(timeUntilDue) ==
  LET hoursUntilDue == RoundDiv(timeUntilDue, SecondsPerHour)
      daysUntilDue == RoundDiv(timeUntilDue, SecondsPerDay)
  IN IF daysUntilDue >= 1
       THEN [phrase |-> "Due in", n |-> daysUntilDue,
             unit |-> IF daysUntilDue # 1 THEN "days" ELSE "day"]
     ELSE IF hoursUntilDue >= 1
       THEN [phrase |-> "Due in", n |-> hoursUntilDue,
             unit |-> IF hoursUntilDue # 1 THEN "hours" ELSE "hour"]
     ELSE [phrase |-> "Due soon!", n |-> 0, unit |-> ""]

\* the notifications handed to notifications.create: id, and the title,
\* course and timeMessage lines of the message
TickMessages(data, t) ==
  IF ~data.settings.notificationsEnabled THEN {}
  ELSE { [id |-> data.items[i].id, title |-> data.items[i].title,
          course |-> data.items[i].course,
          timeMessage |-> TimeMessage(data.items[i].dueDate - t)] : i \in ToNotify(data, t) }

TickEffects(data, t) ==
  [NoEffects EXCEPT !.attempted = TickAttempted(data, t),
                    !.messages = TickMessages(data, t),
                    !.wrote = (TickAttempted(data, t) # {})]

CleanupEffects(data, t) ==
  [NoEffects EXCEPT !.wrote = (Len(FilterRecent(data.items, t)) # Len(data.items)),
                    !.setBadge = (Len(FilterRecent(data.items, t)) # Len(data.items))]

InstalledEffects == [NoEffects EXCEPT !.setBadge = TRUE]

(***************************************************************************)
(* The handlers, each an atomic step from its store read to its store write *)
(***************************************************************************)
NoRequest == [type |-> "none"]

\* the first stored record with this id
ItemOf(data, id) == data.items[IndexOfId(data.items, id)]

Stored(data, id) == id \in IdsOf(data.items)

SentSinceAfter(old, data, data2) ==
  [i \in Ids |->
     /\ Stored(data2, i)
     /\ \/ Truthy(ItemOf(data2, i), "notificationSent")
        \/ /\ old[i]
           /\ Stored(data, i)
           /\ ItemOf(data, i).dueDate = ItemOf(data2, i).dueDate]

\* what every handler step does besides its store write
HandledStore(msg, eff) ==
  /\ request' = msg
  /\ effects' = eff
  /\ before' = store
  /\ sentSince' = SentSinceAfter(sentSince, store, store')
  /\ UNCHANGED <<now, inflight, calls, scraped>>

Handled(msg, eff) ==
  /\ HandledStore(msg, eff)
  /\ UNCHANGED cvars

handleScrapeResult(newItems) ==
  /\ store' = ScrapeUpdate(getStorageData, newItems)
  /\ delivered' = {}
  /\ updateBadge

toggleItemDone(id, done) ==
  /\ store' = ToggleUpdate(getStorageData, id, done)
  /\ delivered' = {}
  /\ UNCHANGED badge

updateSettings(newSettings) ==
  /\ store' = SettingsUpdate(getStorageData, newSettings)
  /\ delivered' = {}
  /\ UNCHANGED badge

\* faulty variant: only the items are reset, the stored settings stay
clearAllData_KeepSettings ==
  /\ store' = [store EXCEPT !.items = <<>>]
  /\ delivered' = {}
  /\ badge' = 0

clearAllData ==
  /\ store' = DEFAULT_STORAGE
  /\ delivered' = {}
  /\ badge' = 0

checkAndSendNotifications(failing) ==
  /\ store' = TickUpdate(getStorageData, now, failing)
  /\ delivered' = TickDelivered(getStorageData, now, failing)
  /\ UNCHANGED badge

cleanupOldItems ==
  /\ store' = CleanupUpdate(getStorageData, now)
  /\ delivered' = {}
  /\ IF Len(FilterRecent(store.items, now)) # Len(store.items)
       THEN updateBadge ELSE UNCHANGED badge

\* runtime.onInstalled when the extension or the browser is updated: the
\* collection exists and is left alone, the badge is recomputed
onInstalled ==
  /\ store' = store
  /\ delivered' = {}
  /\ updateBadge

(***************************************************************************)
(* Spec: any sequence of events from the freshly installed extension,      *)
(* handled one at a time                                                   *)
(***************************************************************************)
Init ==
  /\ store = DEFAULT_STORAGE
  /\ now = 0
  /\ delivered = {}
  /\ request = NoRequest
  /\ before = DEFAULT_STORAGE
  /\ sentSince = [i \in Ids |-> FALSE]
  /\ inflight = {}
  /\ calls = 0
  /\ scraped = {}
  /\ badge = 0
  /\ effects = NoEffects
  /\ parse = NoParse
  /\ run = NoRun
  /\ popup = NoPopup
  /\ tabs = NoTabs

\* the run keeps no record of the last call
Forget ==
  /\ sentSince' = SentSinceAfter(sentSince, store, store')
  /\ UNCHANGED <<now, request, before, inflight, calls, scraped, effects>>
  /\ UNCHANGED cvars

OnScrapeResult == \E newItems \in Batches : handleScrapeResult(newItems) /\ Forget

OnToggleItemDone ==
  \E id \in Ids \cup {NoSuchId}, done \in BOOLEAN : toggleItemDone(id, done) /\ Forget

OnUpdateSettings == \E newSettings \in PartialSettings : updateSettings(newSettings) /\ Forget

OnClearData == clearAllData /\ Forget

OnNotificationAlarm == \E failing \in SUBSET Ids : checkAndSendNotifications(failing) /\ Forget

OnCleanupAlarm == cleanupOldItems /\ Forget

OnInstalled == onInstalled /\ Forget

\* time passes between two handlers
AdvanceClock ==
  \E t \in Clock :
    /\ t > now
    /\ now' = t
    /\ delivered' = {}
    /\ UNCHANGED <<store, request, before, sentSince, inflight, calls, scraped,
                   badge, effects>>
    /\ UNCHANGED cvars

Next ==
  \/ OnScrapeResult
  \/ OnToggleItemDone
  \/ OnUpdateSettings
  \/ OnClearData
  \/ OnNotificationAlarm
  \/ OnCleanupAlarm
  \/ OnInstalled
  \/ AdvanceClock

Spec == Init /\ [][Next]_vars

(***************************************************************************)
(* SpecCall: one call of a handler other than the scrape delivery, on any   *)
(* collection the store can hold, at any instant of the clock              *)
(***************************************************************************)
\* done and notificationSent of a stored record: as delivered, or set by a
\* toggle (done) or by a tick (notificationSent true)
StoredFlags(id) ==
  IF id = "a" THEN FlagChoices \X FlagChoices
  ELSE FlagChoices \X {"absent", "true"}

StoredOf(id) ==
  { WithFlag(WithFlag(BaseRecord(id, x), "done", f[1]), "notificationSent", f[2]) :
      x \in Extractions, f \in StoredFlags(id) }

StoredRecords == UNION { StoredOf(id) : id \in Ids }

\* unique ids, ascending dueDate
Collections ==
  { <<>> } \cup { <<r>> : r \in StoredRecords } \cup
  { <<r[1], r[2]>> : r \in { q \in StoredRecords \X StoredRecords :
                               q[1].id # q[2].id /\ q[1].dueDate <= q[2].dueDate } }

SettingsChoices ==
  { [notificationsEnabled |-> e, notificationHours |-> h] : e \in BOOLEAN, h \in HoursChoices }

\* instants around the 24 hours and the 30 days the handlers measure from
\* the due dates of Extractions
CallClock ==
  Clock \cup
  { 12 * SecondsPerHour - 1, 12 * SecondsPerHour, 12 * SecondsPerHour + 1,
    30 * SecondsPerDay + 12 * SecondsPerHour, 31 * SecondsPerDay + 12 * SecondsPerHour }

InitCall ==
  /\ store \in { [items |-> c, settings |-> s] : c \in Collections, s \in SettingsChoices }
  /\ now \in CallClock
  /\ badge \in 0..Len(store.items)
  /\ effects = NoEffects
  /\ parse = NoParse
  /\ run = NoRun
  /\ popup = NoPopup
  /\ tabs = NoTabs
  /\ delivered = {}
  /\ request = NoRequest
  /\ before = store
  /\ sentSince = [i \in Ids |-> FALSE]
  /\ inflight = {}
  /\ calls = 0
  /\ scraped = {}

CallToggleItemDone ==
  \E id \in Ids \cup {NoSuchId}, done \in BOOLEAN :
    /\ request.type = "none"
    /\ toggleItemDone(id, done)
    /\ Handled([type |-> "TOGGLE_ITEM_DONE", id |-> id, done |-> done], ToggleEffects)

CallUpdateSettings ==
  \E newSettings \in PartialSettings :
    /\ request.type = "none"
    /\ updateSettings(newSettings)
    /\ Handled([type |-> "UPDATE_SETTINGS", settings |-> newSettings], SettingsEffects)

CallClearData ==
  /\ request.type = "none"
  /\ clearAllData
  /\ Handled([type |-> "CLEAR_DATA"], ClearEffects)

CallNotificationAlarm ==
  \E failing \in SUBSET Ids :
    /\ request.type = "none"
    /\ checkAndSendNotifications(failing)
    /\ Handled([type |-> "notificationCheck", failing |-> failing], TickEffects(store, now))

CallCleanupAlarm ==
  /\ request.type = "none"
  /\ cleanupOldItems
  /\ Handled([type |-> "cleanup"], CleanupEffects(store, now))

CallInstalled ==
  /\ request.type = "none"
  /\ onInstalled
  /\ Handled([type |-> "onInstalled"], InstalledEffects)

NextCall ==
  \/ CallToggleItemDone
  \/ CallUpdateSettings
  \/ CallClearData
  \/ CallNotificationAlarm
  \/ CallCleanupAlarm
  \/ CallInstalled

SpecCall == InitCall /\ [][NextCall]_vars

(***************************************************************************)
(* SpecReconcile: one scrape delivery on any collection the store can      *)
(* hold, and the same batch delivered a second time                        *)
(***************************************************************************)
InitReconcile == InitCall /\ now = 0 /\ badge = 0

CallScrapeResult ==
  \E newItems \in Batches :
    /\ request.type = "none"
    /\ handleScrapeResult(newItems)
    /\ Handled([type |-> "SCRAPE_RESULT", items |-> newItems], ScrapeEffects)

\* the content script delivers the batch of the last call once more
CallScrapeResultAgain ==
  /\ request.type = "SCRAPE_RESULT"
  /\ handleScrapeResult(request.items)
  /\ Handled([type |-> "SCRAPE_RESULT again", items |-> request.items], ScrapeEffects)

NextReconcile ==
  \/ CallScrapeResult
  \/ CallScrapeResultAgain

SpecReconcile == InitReconcile /\ [][NextReconcile]_vars

(***************************************************************************)
(* SpecAsync: the listeners are async functions, so a handler that awaits  *)
(* its store read gives way to the next event; the course-opening loops    *)
(* inject the scraper into three tabs at a time, whose SCRAPE_RESULT       *)
(* messages arrive while earlier ones are being handled.  A handler is two *)
(* steps: its store read (Begin) and its store write (End).                *)
(***************************************************************************)
\* the records the extractors build: no done, no notificationSent
ExtractorBatches == { <<BaseRecord(id, x)>> : id \in Ids, x \in Extractions }

AsyncSettings == { [notificationHours |-> 48], [notificationsEnabled |-> FALSE] }

AsyncMessages ==
  { [type |-> "SCRAPE_RESULT", items |-> b] : b \in ExtractorBatches } \cup
  { [type |-> "TOGGLE_ITEM_DONE", id |-> id, done |-> d] : id \in Ids, d \in BOOLEAN } \cup
  { [type |-> "UPDATE_SETTINGS", settings |-> n] : n \in AsyncSettings } \cup
  { [type |-> "notificationCheck", failing |-> f] : f \in SUBSET Ids }

MessagesOf(type) == { msg \in AsyncMessages : msg.type = type }

\* await getStorageData() of the handler called with a message of this type
Begin(type) ==
  \E msg \in MessagesOf(type) :
    /\ calls < MaxCalls
    /\ Cardinality(inflight) < MaxInFlight
    /\ inflight' = inflight \cup {[msg |-> msg, data |-> getStorageData]}
    /\ calls' = calls + 1
    /\ UNCHANGED <<store, now, delivered, request, before, sentSince, scraped,
                   badge, effects>>
    /\ UNCHANGED cvars

\* what the handler that read h.data writes
WrittenBy(h, t) ==
  CASE h.msg.type = "SCRAPE_RESULT" -> ScrapeUpdate(h.data, h.msg.items)
    [] h.msg.type = "TOGGLE_ITEM_DONE" -> ToggleUpdate(h.data, h.msg.id, h.msg.done)
    [] h.msg.type = "UPDATE_SETTINGS" -> SettingsUpdate(h.data, h.msg.settings)
    [] h.msg.type = "notificationCheck" -> TickUpdate(h.data, t, h.msg.failing)

\* the handler's browser.storage.local.set, and the notifications before it
End(type) ==
  \E h \in inflight :
    /\ h.msg.type = type
    /\ store' = WrittenBy(h, now)
    /\ delivered' = IF type = "notificationCheck"
                      THEN TickDelivered(h.data, now, h.msg.failing) ELSE {}
    /\ scraped' = IF type = "SCRAPE_RESULT"
                    THEN scraped \cup IdsOf(h.msg.items) ELSE scraped
    /\ inflight' = IF type = "SCRAPE_RESULT"
                     THEN (inflight \ {h}) \cup {[msg |-> [type |-> "updateBadge"], data |-> h.data]}
                     ELSE inflight \ {h}
    /\ request' = h.msg
    /\ before' = h.data
    /\ sentSince' = SentSinceAfter(sentSince, store, store')
    /\ UNCHANGED <<now, calls, badge, effects>>
    /\ UNCHANGED cvars

\* await updateBadge() of a scrape handler that has written: it reads the
\* store as it is by then
EndUpdateBadge ==
  \E h \in inflight :
    /\ h.msg.type = "updateBadge"
    /\ badge' = BadgeCount(store, now)
    /\ inflight' = inflight \ {h}
    /\ UNCHANGED <<store, now, delivered, request, before, sentSince, calls, scraped,
                   effects>>
    /\ UNCHANGED cvars

BeginScrapeResult == Begin("SCRAPE_RESULT")

EndScrapeResult == End("SCRAPE_RESULT")

BeginToggleItemDone == Begin("TOGGLE_ITEM_DONE")

EndToggleItemDone == End("TOGGLE_ITEM_DONE")

BeginUpdateSettings == Begin("UPDATE_SETTINGS")

EndUpdateSettings == End("UPDATE_SETTINGS")

BeginNotificationAlarm == Begin("notificationCheck")

EndNotificationAlarm == End("notificationCheck")

NextAsync ==
  \/ BeginScrapeResult
  \/ EndScrapeResult
  \/ BeginToggleItemDone
  \/ EndToggleItemDone
  \/ BeginUpdateSettings
  \/ EndUpdateSettings
  \/ BeginNotificationAlarm
  \/ EndNotificationAlarm
  \/ EndUpdateBadge

SpecAsync == Init /\ [][NextAsync]_vars

(***************************************************************************)
(* SpecFail: one call of a message handler during which the store may be   *)
(* unreadable (storage.local.get rejects) or unwritable (storage.local.set *)
(* rejects)                                                                *)
(***************************************************************************)
\* getStorageData when storage.local.get may reject: its catch returns
\* DEFAULT_STORAGE
getStorageDataOrDefault(readFails) == IF readFails THEN DEFAULT_STORAGE ELSE store

\* a rejected storage.local.set throws into the handler's catch: the stored
\* collection stays
SetOrThrow(updatedData, writeFails) == IF writeFails THEN store ELSE updatedData

\* the updateBadge() after the write is not reached when set rejects; its own
\* getStorageData falls back to DEFAULT_STORAGE like the handler's
handleScrapeResultOnFailure(newItems, readFails, writeFails) ==
  /\ store' = SetOrThrow(ScrapeUpdate(getStorageDataOrDefault(readFails), newItems), writeFails)
  /\ delivered' = {}
  /\ badge' = IF writeFails THEN badge
              ELSE IF readFails THEN BadgeCount(DEFAULT_STORAGE, now)
              ELSE BadgeCount(store', now)

ScrapeEffectsOnFailure(writeFails) ==
  [ScrapeEffects EXCEPT !.setBadge = ~writeFails, !.broadcast = ~writeFails]

toggleItemDoneOnFailure(id, done, readFails, writeFails) ==
  /\ store' = SetOrThrow(ToggleUpdate(getStorageDataOrDefault(readFails), id, done), writeFails)
  /\ delivered' = {}
  /\ UNCHANGED badge

\* the TOGGLE_ITEM_DONE branch returns false from its catch
ToggleEffectsOnFailure(writeFails) ==
  [ToggleEffects EXCEPT !.broadcast = ~writeFails,
                        !.reply = IF writeFails THEN "false" ELSE "true"]

updateSettingsOnFailure(newSettings, readFails, writeFails) ==
  /\ store' = SetOrThrow(SettingsUpdate(getStorageDataOrDefault(readFails), newSettings),
                         writeFails)
  /\ delivered' = {}
  /\ UNCHANGED badge

\* clearAllData reads nothing; setBadgeText is not reached when set rejects
clearAllDataOnFailure(writeFails) ==
  /\ store' = SetOrThrow(DEFAULT_STORAGE, writeFails)
  /\ delivered' = {}
  /\ badge' = IF writeFails THEN badge ELSE 0

ClearEffectsOnFailure(writeFails) == [ClearEffects EXCEPT !.setBadge = ~writeFails]

InitFail == InitCall /\ now = 0

\* batches of at most one record
ShortBatches == { b \in Batches : Len(b) <= 1 }

FailScrapeResult ==
  \E newItems \in ShortBatches, readFails \in BOOLEAN, writeFails \in BOOLEAN :
    /\ request.type = "none"
    /\ handleScrapeResultOnFailure(newItems, readFails, writeFails)
    /\ Handled([type |-> "SCRAPE_RESULT", items |-> newItems,
                readFails |-> readFails, writeFails |-> writeFails],
               ScrapeEffectsOnFailure(writeFails))

FailToggleItemDone ==
  \E id \in Ids \cup {NoSuchId}, done \in BOOLEAN, readFails \in BOOLEAN, writeFails \in BOOLEAN :
    /\ request.type = "none"
    /\ toggleItemDoneOnFailure(id, done, readFails, writeFails)
    /\ Handled([type |-> "TOGGLE_ITEM_DONE", id |-> id, done |-> done,
                readFails |-> readFails, writeFails |-> writeFails],
               ToggleEffectsOnFailure(writeFails))

FailUpdateSettings ==
  \E newSettings \in PartialSettings, readFails \in BOOLEAN, writeFails \in BOOLEAN :
    /\ request.type = "none"
    /\ updateSettingsOnFailure(newSettings, readFails, writeFails)
    /\ Handled([type |-> "UPDATE_SETTINGS", settings |-> newSettings,
                readFails |-> readFails, writeFails |-> writeFails],
               SettingsEffects)

FailClearData ==
  \E writeFails \in BOOLEAN :
    /\ request.type = "none"
    /\ clearAllDataOnFailure(writeFails)
    /\ Handled([type |-> "CLEAR_DATA", readFails |-> FALSE, writeFails |-> writeFails],
               ClearEffectsOnFailure(writeFails))

NextFail ==
  \/ FailScrapeResult
  \/ FailToggleItemDone
  \/ FailUpdateSettings
  \/ FailClearData

SpecFail == InitFail /\ [][NextFail]_vars

\* every collection Spec reaches is one SpecCall starts from
StoreInCollections ==
  /\ store.items \in Collections
  /\ store.settings \in SettingsChoices

(***************************************************************************)
(* The calendar of JavaScript Date, in local time: an instant is a number  *)
(* of seconds since the first instant of EpochYear (daylight saving not    *)
(* modelled), with its milliseconds kept apart                             *)
(***************************************************************************)
EpochYear == 2024

Years == EpochYear..(EpochYear + 4)

IsLeap(y) == y % 4 = 0 /\ (y % 100 # 0 \/ y % 400 = 0)

\* month is 0-based, as in Date
DaysInMonth(y, month) ==
  IF month = 1 THEN (IF IsLeap(y) THEN 29 ELSE 28)
  ELSE IF month \in {3, 5, 8, 10} THEN 30 ELSE 31

RECURSIVE DaysBeforeYear(_)
DaysBeforeYear(y) ==
  IF y = EpochYear THEN 0
  ELSE IF y > EpochYear
       THEN DaysBeforeYear(y - 1) + (IF IsLeap(y - 1) THEN 366 ELSE 365)
       ELSE DaysBeforeYear(y + 1) - (IF IsLeap(y) THEN 366 ELSE 365)

RECURSIVE DaysBeforeMonth(_, _)
DaysBeforeMonth(y, month) ==
  IF month <= 0 THEN 0 ELSE DaysBeforeMonth(y, month - 1) + DaysInMonth(y, month - 1)

\* new Date(y, month, day, hours, minutes, seconds): a month past 11 and a
\* day outside the month carry over, as Date does
MakeDate(y, month, day, hours, minutes, seconds) ==
  LET yy == y + (month \div 12)
      mm == month % 12
  IN (((DaysBeforeYear(yy) + DaysBeforeMonth(yy, mm) + day - 1) * 24 + hours) * 60
        + minutes) * 60 + seconds

getFullYear(t) ==
  CHOOSE y \in Years :
    /\ DaysBeforeYear(y) * SecondsPerDay <= t
    /\ t < DaysBeforeYear(y + 1) * SecondsPerDay

getMonth(t) ==
  LET y == getFullYear(t)
      d == (t \div SecondsPerDay) - DaysBeforeYear(y)
  IN CHOOSE month \in 0..11 :
       DaysBeforeMonth(y, month) <= d /\ d < DaysBeforeMonth(y, month + 1)

getDate(t) ==
  (t \div SecondsPerDay) - DaysBeforeYear(getFullYear(t))
    - DaysBeforeMonth(getFullYear(t), getMonth(t)) + 1

\* date.setFullYear(y): the same month, day and time of day in year y
setFullYear(t, y) ==
  MakeDate(y, getMonth(t), getDate(t), 0, 0, 0) + (t % SecondsPerDay)

(***************************************************************************)
(* Date fragments.  A fragment is the text the extractor found near a      *)
(* deadline, as the sequence of its lexemes: runs of word characters       *)
(* (words and numbers), single white-space characters and punctuation      *)
(* characters.  The regular expressions of parseDateString are matched on  *)
(* the lexemes.                                                            *)
(***************************************************************************)
\* a run of letters
W(s) == [k |-> "w", s |-> s, n |-> 0, len |-> 0]
\* a run of len digits with value n
N(n, len) == [k |-> "n", s |-> "", n |-> n, len |-> len]
\* one white-space character
SP == [k |-> "sp", s |-> " ", n |-> 0, len |-> 0]
\* one punctuation character
P(c) == [k |-> "p", s |-> c, n |-> 0, len |-> 0]

\* String.prototype.toLowerCase on the words fragments are written with
Lower(s) ==
  CASE s = "Due" -> "due" [] s = "Today" -> "today" [] s = "Tomorrow" -> "tomorrow"
    [] s = "Sunday" -> "sunday" [] s = "Wed" -> "wed"
    [] s = "Jan" -> "jan" [] s = "Feb" -> "feb" [] s = "Jun" -> "jun" [] s = "June" -> "june" [] s = "Dec" -> "dec"
    [] s = "AM" -> "am" [] s = "PM" -> "pm" [] s = "CST" -> "cst" [] s = "TBD" -> "tbd"
    [] OTHER -> s

toLowerCase(f) == [i \in DOMAIN f |-> IF f[i].k = "w" THEN W(Lower(f[i].s)) ELSE f[i]]

RECURSIVE DropSpaces(_)
\* f without its leading white space
DropSpaces(f) == IF f # <<>> /\ Head(f).k = "sp" THEN DropSpaces(Tail(f)) ELSE f

RECURSIVE RemoveWord(_, _)
\* .replace(/word\s*/g, ''): the word and the white space after it
RemoveWord(f, word) ==
  IF f = <<>> THEN <<>>
  ELSE IF Head(f) = W(word) THEN RemoveWord(DropSpaces(Tail(f)), word)
  ELSE <<Head(f)>> \o RemoveWord(Tail(f), word)

\* .replace(/@/g, ' ')
ReplaceAt(f) == [i \in DOMAIN f |-> IF f[i] = P("@") THEN SP ELSE f[i]]

RECURSIVE CollapseSpaces(_)
\* .replace(/\s+/g, ' ')
CollapseSpaces(f) ==
  IF f = <<>> THEN <<>>
  ELSE IF Head(f).k = "sp" THEN <<SP>> \o CollapseSpaces(DropSpaces(f))
  ELSE <<Head(f)>> \o CollapseSpaces(Tail(f))

RECURSIVE Reverse(_)
Reverse(f) == IF f = <<>> THEN <<>> ELSE Append(Reverse(Tail(f)), Head(f))

\* .trim()
Trim(f) == Reverse(DropSpaces(Reverse(DropSpaces(f))))

\* cleanStr: lower case, "due" and "until" removed, "@" to a space, white
\* space collapsed, trimmed
CleanStr(dateStr) ==
  Trim(CollapseSpaces(ReplaceAt(RemoveWord(RemoveWord(toLowerCase(dateStr), "due"), "until"))))

\* cleanStr.includes(word)
Includes(f, word) == \E i \in DOMAIN f : f[i] = W(word)

\* the first position at or after i that holds no white space
SkipSp(f, i) ==
  CHOOSE j \in i..(Len(f) + 1) :
    /\ j = Len(f) + 1 \/ f[j].k # "sp"
    /\ \A m \in i..(j - 1) : f[m].k = "sp"

IsKind(f, i, k) == i \in DOMAIN f /\ f[i].k = k

\* position i holds a run of word characters (\w+)
IsRun(f, i) == i \in DOMAIN f /\ f[i].k \in {"w", "n"}

\* the digits \d{1,2} takes from the start of a run of digits
Lead2(x) == IF x.len <= 2 THEN x.n ELSE x.n \div (10 ^ (x.len - 2))

\* the digits \d{1,2} takes from the end of a run of digits
Last2(x) == x.n % 100

\* the least element of a set of positions, 0 when it is empty
First(S) == IF S = {} THEN 0 ELSE CHOOSE i \in S : \A j \in S : i <= j

(***************************************************************************)
(* parseDateString: lib/date-parser.js and the two versions inlined in the *)
(* content scripts                                                         *)
(***************************************************************************)
Parsers == {"lib", "prairielearn", "gradescope"}

\* return null
NullDate == [ok |-> FALSE, t |-> 0, ms |-> 0]

\* date.toISOString() of a valid Date
IsoOf(t, ms) == [ok |-> TRUE, t |-> t, ms |-> ms]

At(f, i, x) == i \in DOMAIN f /\ f[i] = x

\* where /(\d{1,2}):(\d{2})\s*(am|pm)/i matches first, 0 when nowhere
TimeStart(f) ==
  First({ i \in DOMAIN f :
            /\ IsKind(f, i, "n") /\ At(f, i + 1, P(":"))
            /\ IsKind(f, i + 2, "n") /\ f[i + 2].len = 2
            /\ (At(f, SkipSp(f, i + 3), W("am")) \/ At(f, SkipSp(f, i + 3), W("pm"))) })

\* hours and minutes: of the time match, or the end of the day
TimeOf(f) ==
  LET i == TimeStart(f)
  IN IF i = 0 THEN [hours |-> 23, minutes |-> 59]
     ELSE LET h == Last2(f[i])
              isPM == f[SkipSp(f, i + 3)] = W("pm")
          IN [hours |-> IF isPM /\ h # 12 THEN h + 12
                        ELSE IF ~isPM /\ h = 12 THEN 0 ELSE h,
              minutes |-> f[i + 2].n]

\* cleanStr.replace(/\d{1,2}:\d{2}\s*(am|pm)/i, '').trim()
RemoveTime(f) ==
  LET i == TimeStart(f)
  IN IF i = 0 THEN f
     ELSE Trim(SubSeq(f, 1, i - 1) \o SubSeq(f, SkipSp(f, i + 3) + 1, Len(f)))

TimeZones == {"cst", "est", "pst", "mst", "cdt", "edt", "pdt", "mdt"}

\* cleanStr.replace(/\b(cst|est|...)\b/gi, '').trim() (PrairieLearn only)
RemoveTimeZones(f) == Trim(SelectSeq(f, LAMBDA x : ~(x.k = "w" /\ x.s \in TimeZones)))

\* monthNames[name], -1 for undefined
MonthIndex(name) ==
  CASE name \in {"jan", "january"} -> 0 [] name \in {"feb", "february"} -> 1
    [] name \in {"mar", "march"} -> 2 [] name \in {"apr", "april"} -> 3
    [] name = "may" -> 4 [] name \in {"jun", "june"} -> 5
    [] name \in {"jul", "july"} -> 6 [] name \in {"aug", "august"} -> 7
    [] name \in {"sep", "september"} -> 8 [] name \in {"oct", "october"} -> 9
    [] name \in {"nov", "november"} -> 10 [] name \in {"dec", "december"} -> 11
    [] OTHER -> -1

NoMatch == [found |-> FALSE]

\* /(\w+),\s*(\w+)\s+(\d{1,2})/i: "Sunday, Dec 25"
MatchWeekdayMonthDay(f) ==
  LET i == First({ i \in DOMAIN f :
                     /\ IsRun(f, i) /\ At(f, i + 1, P(","))
                     /\ IsRun(f, SkipSp(f, i + 2))
                     /\ IsKind(f, SkipSp(f, i + 2) + 1, "sp")
                     /\ IsKind(f, SkipSp(f, SkipSp(f, i + 2) + 1), "n") })
  IN IF i = 0 THEN NoMatch
     ELSE LET j == SkipSp(f, i + 2)
          IN [found |-> TRUE, monthName |-> f[j].s, day |-> Lead2(f[SkipSp(f, j + 1)])]

\* /(\w+)\s+(\d{1,2})/i: "Dec 25"
MatchMonthDay(f) ==
  LET i == First({ i \in DOMAIN f :
                     /\ IsRun(f, i) /\ IsKind(f, i + 1, "sp")
                     /\ IsKind(f, SkipSp(f, i + 1), "n") })
  IN IF i = 0 THEN NoMatch
     ELSE [found |-> TRUE, monthName |-> f[i].s, day |-> Lead2(f[SkipSp(f, i + 1)])]

\* the digits \d{2,4} takes from the start of a run of digits
Lead4(x) == IF x.len <= 4 THEN x.n ELSE x.n \div (10 ^ (x.len - 4))

\* position i + 3 starts "/" and a year of two to four digits
HasYearAfter(f, i) ==
  /\ f[i + 2].len <= 2
  /\ At(f, i + 3, P("/"))
  /\ IsKind(f, i + 4, "n") /\ f[i + 4].len >= 2

\* /(\d{1,2})\/(\d{1,2})(?:\/(\d{2,4}))?/: "12/25", "12/25/2025"
MatchSlash(f) ==
  LET i == First({ i \in DOMAIN f :
                     IsKind(f, i, "n") /\ At(f, i + 1, P("/")) /\ IsKind(f, i + 2, "n") })
  IN IF i = 0 THEN NoMatch
     ELSE [found |-> TRUE, month |-> Last2(f[i]), day |-> Lead2(f[i + 2]),
           hasYear |-> HasYearAfter(f, i),
           year |-> IF HasYearAfter(f, i) THEN Lead4(f[i + 4]) ELSE 0]

\* /(\d{1,2})\/(\d{1,2})\/(\d{2,4})/: "12/25/2025"
MatchSlashYear(f) ==
  LET i == First({ i \in DOMAIN f :
                     /\ IsKind(f, i, "n") /\ At(f, i + 1, P("/")) /\ IsKind(f, i + 2, "n")
                     /\ HasYearAfter(f, i) })
  IN IF i = 0 THEN NoMatch
     ELSE [found |-> TRUE, month |-> Last2(f[i]), day |-> Lead2(f[i + 2]),
           hasYear |-> TRUE, year |-> Lead4(f[i + 4])]

\* /(\d{4})-(\d{1,2})-(\d{1,2})/: "2025-12-25"
MatchIso(f) ==
  LET i == First({ i \in DOMAIN f :
                     /\ IsKind(f, i, "n") /\ f[i].len >= 4 /\ At(f, i + 1, P("-"))
                     /\ IsKind(f, i + 2, "n") /\ f[i + 2].len <= 2 /\ At(f, i + 3, P("-"))
                     /\ IsKind(f, i + 4, "n") })
  IN IF i = 0 THEN NoMatch
     ELSE [found |-> TRUE, year |-> f[i].n % 10000, month |-> f[i + 2].n,
           day |-> Lead2(f[i + 4])]

\* faulty variant: a date in the past stays in the year of now
RollForward_Never(date, refNow, year) == date

\* if (date < now) date.setFullYear(year + 1)
RollForward(date, refNow, year) ==
  IF date < refNow THEN setFullYear(date, year + 1) ELSE date

\* a month name and a day, in the year of now or in the next
MonthDayDate(m, hours, minutes, refNow) ==
  LET year == getFullYear(refNow)
  IN RollForward(MakeDate(year, MonthIndex(m.monthName), m.day, hours, minutes, 0),
                 refNow, year)

\* if (year < 100) year += year < 50 ? 2000 : 1900
FullYear(year) == IF year < 100 THEN year + (IF year < 50 THEN 2000 ELSE 1900) ELSE year

\* MM/DD or MM/DD/YYYY of lib/date-parser.js
SlashDate(m, hours, minutes, refNow) ==
  LET year == IF m.hasYear THEN FullYear(m.year) ELSE getFullYear(refNow)
      date == MakeDate(year, m.month - 1, m.day, hours, minutes, 0)
  IN IF m.hasYear THEN date ELSE RollForward(date, refNow, year)

\* MM/DD/YYYY of the content scripts
SlashYearDate(m, hours, minutes) ==
  MakeDate(FullYear(m.year), m.month - 1, m.day, hours, minutes, 0)

\* ISO format "2025-12-25" of lib/date-parser.js
IsoDate(m, hours, minutes) == MakeDate(m.year, m.month - 1, m.day, hours, minutes, 0)

\* date.setHours(23, 59, 59, 999)
EndOfDay(t) == [ok |-> TRUE, t |-> t - (t % SecondsPerDay) + SecondsPerDay - 1, ms |-> 999]

\* the year a legacy date parser gives a month and a day without a year
LegacyYear == 2001

\* new Date(cleanStr).  A date-only ISO string is midnight UTC, which is
\* tz hours later on the local clock.  Every other form is left to the
\* engine: one with the legacy parser reads "12/25" as that day of 2001,
\* one without it gives Invalid Date, as both give for free text.
NativeDate(f, tz, legacy) ==
  IF /\ Len(f) = 5 /\ f[1].k = "n" /\ f[1].len = 4 /\ f[2] = P("-")
     /\ f[3].k = "n" /\ f[3].len = 2 /\ f[3].n \in 1..12 /\ f[4] = P("-")
     /\ f[5].k = "n" /\ f[5].len = 2 /\ f[5].n \in 1..DaysInMonth(f[1].n, f[3].n - 1)
  THEN IsoOf(MakeDate(f[1].n, f[3].n - 1, f[5].n, tz, 0, 0), 0)
  ELSE IF /\ legacy /\ Len(f) = 3 /\ f[1].k = "n" /\ f[1].n \in 1..12 /\ f[2] = P("/")
          /\ f[3].k = "n" /\ f[3].n \in 1..DaysInMonth(LegacyYear, f[1].n - 1)
  THEN IsoOf(MakeDate(LegacyYear, f[1].n - 1, f[3].n, 0, 0, 0), 0)
  ELSE NullDate

\* step 5: the native parse, at the end of its day when no time was given
LastResort(f, timed, tz, legacy) ==
  LET date == NativeDate(f, tz, legacy)
  IN IF date.ok /\ ~timed THEN EndOfDay(date.t) ELSE date

\* step 4 of lib/date-parser.js: the formats in order, the first that gives a date
LibFormats(f, hours, minutes, refNow, timed, tz, legacy) ==
  IF MatchWeekdayMonthDay(f).found /\ MonthIndex(MatchWeekdayMonthDay(f).monthName) # -1
  THEN IsoOf(MonthDayDate(MatchWeekdayMonthDay(f), hours, minutes, refNow), 0)
  ELSE IF MatchMonthDay(f).found /\ MonthIndex(MatchMonthDay(f).monthName) # -1
  THEN IsoOf(MonthDayDate(MatchMonthDay(f), hours, minutes, refNow), 0)
  ELSE IF MatchSlash(f).found
  THEN IsoOf(SlashDate(MatchSlash(f), hours, minutes, refNow), 0)
  ELSE IF MatchIso(f).found
  THEN IsoOf(IsoDate(MatchIso(f), hours, minutes), 0)
  ELSE LastResort(f, timed, tz, legacy)

\* the formats of the parser inlined in the PrairieLearn script
PrairieLearnFormats(f, hours, minutes, refNow, timed, tz, legacy) ==
  IF MatchWeekdayMonthDay(f).found /\ MonthIndex(MatchWeekdayMonthDay(f).monthName) # -1
  THEN IsoOf(MonthDayDate(MatchWeekdayMonthDay(f), hours, minutes, refNow), 0)
  ELSE IF MatchMonthDay(f).found /\ MonthIndex(MatchMonthDay(f).monthName) # -1
  THEN IsoOf(MonthDayDate(MatchMonthDay(f), hours, minutes, refNow), 0)
  ELSE IF MatchSlashYear(f).found
  THEN IsoOf(SlashYearDate(MatchSlashYear(f), hours, minutes), 0)
  ELSE LastResort(f, timed, tz, legacy)

\* the formats of the parser inlined in the Gradescope script
GradescopeFormats(f, hours, minutes, refNow, timed, tz, legacy) ==
  IF MatchMonthDay(f).found /\ MonthIndex(MatchMonthDay(f).monthName) # -1
  THEN IsoOf(MonthDayDate(MatchMonthDay(f), hours, minutes, refNow), 0)
  ELSE IF MatchSlashYear(f).found
  THEN IsoOf(SlashYearDate(MatchSlashYear(f), hours, minutes), 0)
  ELSE LastResort(f, timed, tz, legacy)

\* new Date(y, m, d [+ 1], 23, 59, 59) of the day of now
RelativeDay(refNow, days) ==
  IsoOf(MakeDate(getFullYear(refNow), getMonth(refNow), getDate(refNow) + days, 23, 59, 59), 0)

\* parseDateString(dateStr) of the given script, called at now on a machine
\* tz hours east of UTC
parseDateString(parser, dateStr, refNow, tz, legacy) ==
  IF dateStr = << >> THEN NullDate
  ELSE LET cleanStr == CleanStr(dateStr)
           timed == TimeStart(cleanStr) # 0
           hours == TimeOf(cleanStr).hours
           minutes == TimeOf(cleanStr).minutes
           dateOnly == RemoveTime(cleanStr)
       IN IF Includes(cleanStr, "today") THEN RelativeDay(refNow, 0)
          ELSE IF Includes(cleanStr, "tomorrow") THEN RelativeDay(refNow, 1)
          ELSE CASE parser = "lib" ->
                      LibFormats(dateOnly, hours, minutes, refNow, timed, tz, legacy)
                 [] parser = "prairielearn" ->
                      PrairieLearnFormats(RemoveTimeZones(dateOnly), hours, minutes, refNow,
                                          timed, tz, legacy)
                 [] parser = "gradescope" ->
                      GradescopeFormats(dateOnly, hours, minutes, refNow, timed, tz, legacy)

(***************************************************************************)
(* SpecParse: one call of parseDateString, of one of the three scripts, on *)
(* a fragment of one of the shapes the sites show, at one of the reference *)
(* instants, in one time zone, on one engine.                              *)
(***************************************************************************)
\* the instants new Date() gives: midday, the last minute of a day at and
\* after its 59th second, a leap year, the last second of a year
ParseClock ==
  { MakeDate(2025, 5, 1, 12, 0, 0), MakeDate(2025, 11, 25, 23, 59, 0),
    MakeDate(2025, 11, 25, 23, 59, 30), MakeDate(2024, 5, 1, 12, 0, 0),
    MakeDate(2025, 11, 31, 23, 59, 59) }

\* hours east of UTC of the machine's clock
TimeZoneHours == {-6, 0}

\* the clock times a fragment shows, with the hour of the day each names
ClockTimes ==
  { [given |-> FALSE, hours |-> 23, minutes |-> 59, text |-> << >>],
    [given |-> TRUE, hours |-> 9, minutes |-> 0,
     text |-> <<N(9, 1), P(":"), N(0, 2), SP, W("AM")>>],
    [given |-> TRUE, hours |-> 23, minutes |-> 59,
     text |-> <<N(11, 2), P(":"), N(59, 2), SP, W("PM")>>],
    [given |-> TRUE, hours |-> 0, minutes |-> 0,
     text |-> <<N(12, 2), P(":"), N(0, 2), W("AM")>>] }

\* the calendar days a fragment names: 0-based month, day of the month
CalendarDays ==
  { [month |-> 0, day |-> 1], [month |-> 1, day |-> 29], [month |-> 5, day |-> 1],
    [month |-> 11, day |-> 25], [month |-> 11, day |-> 31] }

Shapes == {"weekday", "monthday", "slash", "slashyear", "iso", "today", "tomorrow", "text"}

\* what the page shows for a deadline
Named ==
  { n \in [shape : Shapes, cal : CalendarDays, time : ClockTimes, due : BOOLEAN] :
      /\ n.shape \in {"today", "tomorrow"} => n.cal = [month |-> 0, day |-> 1] /\ ~n.due
      /\ n.shape = "text" => n.cal = [month |-> 0, day |-> 1] /\ ~n.time.given }

MonthWord(month) ==
  CASE month = 0 -> "Jan" [] month = 1 -> "Feb" [] month = 5 -> "Jun" [] month = 11 -> "Dec"

\* the digits of n, two of them when zero-padded
Digits(n, padded) == N(n, IF n >= 10 \/ padded THEN 2 ELSE 1)

\* the year a fragment with a year names
NamedYear == 2025

\* the text of the calendar day
DayText(n) ==
  CASE n.shape = "weekday" ->
         <<W("Sunday"), P(","), SP, W(MonthWord(n.cal.month)), SP, Digits(n.cal.day, FALSE)>>
    [] n.shape = "monthday" -> <<W(MonthWord(n.cal.month)), SP, Digits(n.cal.day, FALSE)>>
    [] n.shape = "slash" -> <<Digits(n.cal.month + 1, FALSE), P("/"), Digits(n.cal.day, FALSE)>>
    [] n.shape = "slashyear" ->
         <<Digits(n.cal.month + 1, FALSE), P("/"), Digits(n.cal.day, FALSE), P("/"),
           N(NamedYear, 4)>>
    [] n.shape = "iso" ->
         <<N(NamedYear, 4), P("-"), Digits(n.cal.month + 1, TRUE), P("-"),
           Digits(n.cal.day, TRUE)>>
    [] n.shape = "today" -> <<W("Today")>>
    [] n.shape = "tomorrow" -> <<W("Tomorrow")>>
    [] n.shape = "text" -> IF n.due THEN <<W("TBD")>> ELSE << >>

\* the fragment: "Due: Dec 25 @ 11:59 PM"
Fragment(n) ==
  (IF n.due THEN <<W("Due"), P(":"), SP>> ELSE << >>)
    \o DayText(n)
    \o (IF n.time.given THEN <<SP, P("@"), SP>> \o n.time.text ELSE << >>)

\* the variables of the background script
bvars == <<store, now, delivered, request, before, sentSince, inflight, calls, scraped,
           badge, effects>>

\* the background script has handled nothing
InitBackground ==
  /\ store = DEFAULT_STORAGE
  /\ now = 0
  /\ delivered = {}
  /\ request = NoRequest
  /\ before = DEFAULT_STORAGE
  /\ sentSince = [i \in Ids |-> FALSE]
  /\ inflight = {}
  /\ calls = 0
  /\ scraped = {}
  /\ badge = 0
  /\ effects = NoEffects

InitParse ==
  /\ InitBackground
  /\ run = NoRun
  /\ popup = NoPopup
  /\ tabs = NoTabs
  /\ parse \in { [parser |-> p, named |-> n, dateStr |-> Fragment(n), now |-> t, tz |-> tz,
                  legacy |-> legacy, called |-> FALSE, result |-> NullDate] :
                 p \in Parsers, n \in Named, t \in ParseClock, tz \in TimeZoneHours,
                 legacy \in BOOLEAN }

\* the script calls parseDateString(dateStr)
CallParseDateString ==
  /\ ~parse.called
  /\ parse' = [parse EXCEPT
                 !.called = TRUE,
                 !.result = parseDateString(parse.parser, parse.dateStr, parse.now, parse.tz,
                                            parse.legacy)]
  /\ UNCHANGED <<bvars, run, popup, tabs>>

NextParse == CallParseDateString

SpecParse == InitParse /\ [][NextParse]_vars

(***************************************************************************)
(* The content scripts.  A URL is the sequence of its pieces: the runs of  *)
(* characters of [A-Za-z0-9-], and each other character on its own.        *)
(***************************************************************************)
Sites == {"Gradescope", "PrairieLearn"}

\* window.location.origin
Origin(site) ==
  IF site = "Gradescope" THEN <<"https", ":", "/", "/", "www", ".", "gradescope", ".", "com">>
  ELSE <<"https", ":", "/", "/", "us", ".", "prairielearn", ".", "com">>

\* window.location.href: the page that lists the course's assignments
Location(site) ==
  IF site = "Gradescope" THEN Origin(site) \o <<"/", "courses", "/", "1">>
  ELSE Origin(site) \o <<"/", "pl", "/", "course", "_", "instance", "/", "1", "/", "assessments">>

\* the characters of a URL outside [A-Za-z0-9-]
Others == {":", "/", ".", "#", "_", "["}

RECURSIVE Sanitize(_)
\* .replace(/[^a-zA-Z0-9-]/g, '-')
Sanitize(url) ==
  IF url = << >> THEN ""
  ELSE (IF Head(url) \in Others THEN "-" ELSE Head(url)) \o Sanitize(Tail(url))

\* the assignments the site has
Assignments == 1..2

\* the site's number of an assignment
AssignmentId(k) == ToString(k + 6)

\* the path of an assignment's page on the site
PathOf(site, k) ==
  IF site = "Gradescope" THEN <<"/", "courses", "/", "1", "/", "assignments", "/", AssignmentId(k)>>
  ELSE <<"/", "pl", "/", "course", "_", "instance", "/", "1", "/", "assessment", "/",
         AssignmentId(k)>>

\* the hrefs of the anchors to the rubric of the first assignment: a section
\* of its page, and a page of its own
SectionHrefs(site, k) ==
  IF k = 1 THEN { PathOf(site, k) \o <<"#", "rubric">>, PathOf(site, k) \o <<"/", "rubric">> }
  ELSE {}

\* the href attributes an anchor of assignment k has: relative, absolute and
\* one that is no URL
Hrefs(site, k) ==
  { PathOf(site, k), Origin(site) \o PathOf(site, k), <<"/", "/", "[">> \o PathOf(site, k) }
    \cup SectionHrefs(site, k)

\* href.startsWith('http')
StartsWithHttp(href) == href # << >> /\ Head(href) \in {"http", "https"}

\* new URL(href, window.location.origin) throws a TypeError
UrlThrows(href) == Len(href) >= 3 /\ SubSeq(href, 1, 3) = <<"/", "/", "[">>

\* new URL(href, window.location.origin).href of a path
ResolveUrl(site, href) == Origin(site) \o href

\* the due-date texts a candidate shows: none, free text, a day with a
\* time, a day that has passed this year
DueTexts ==
  { << >>, <<W("TBD")>>,
    <<W("Dec"), SP, N(25, 2), SP, P("@"), SP, N(11, 2), P(":"), N(59, 2), SP, W("PM")>>,
    <<W("Due"), P(":"), SP, W("Jan"), SP, N(1, 1)>> }

TitleOf(k) == "Homework " \o ToString(k)

\* what a table row, a list entry or a card shows of assignment k: its
\* title, the data-assignment-id of its button, its due-date text and the
\* href of its anchor, each of which may be missing
Candidates(site, k) ==
  { c \in [of : {k}, title : {"", TitleOf(k)}, assignmentId : {"", AssignmentId(k)},
           dueDateText : DueTexts, href : Hrefs(site, k) \cup {<< >>}] :
      /\ c.title = "" => c.dueDateText = <<W("Due"), P(":"), SP, W("Jan"), SP, N(1, 1)>>
      /\ c.dueDateText \in {<< >>, <<W("TBD")>>} => c.assignmentId = "" /\ c.href = PathOf(site, k)
      /\ c.assignmentId # "" => c.href = << >> /\ c.title # ""
      /\ c.dueDateText = <<W("Due"), P(":"), SP, W("Jan"), SP, N(1, 1)>>
           => c.href = << >> /\ c.assignmentId = "" /\ (c.title = "" <=> site = "Gradescope")
      /\ site = "PrairieLearn" => c.assignmentId = "" /\ c.title # "" }

\* the candidates a page of the site can show
AllCandidates(site) == UNION { Candidates(site, k) : k \in Assignments }

\* most candidates on a page at first
MaxRows == 2

\* the lists of candidates of a page, in any order; an assignment may show twice
RowLists(site) == UNION { [1..n -> AllCandidates(site)] : n \in 0..MaxRows }

\* the layouts of a page: the assignments table, with or without the course
\* link of the sidebar, or a list of links
Layouts(site) ==
  IF site = "Gradescope"
  THEN { [table |-> TRUE, courseId |-> "1"], [table |-> TRUE, courseId |-> ""],
         [table |-> FALSE, courseId |-> ""] }
  ELSE { [table |-> FALSE, courseId |-> ""] }

Pages ==
  UNION { { [site |-> site, courseId |-> l.courseId, table |-> l.table, rows |-> rows] :
              l \in Layouts(site), rows \in RowLists(site) } : site \in Sites }

(***************************************************************************)
(* scrapeGradescope and scrapePrairieLearn                                 *)
(***************************************************************************)
\* the clock, the time zone and the engine of the browser the scripts run in
ScrapeClock == MakeDate(2025, 5, 1, 12, 0, 0)

ScrapeZone == -6

ScrapeLegacy == TRUE

\* let courseName = 'Unknown Course'
CourseName == "Unknown Course"

\* const items = []; const seen = new Map(); threw counts the errors the
\* catch blocks logged, aborted says that an error left the loop
NoItems == [items |-> << >>, seen |-> {}, threw |-> 0, aborted |-> FALSE]

\* faulty variant: the error of one candidate ends the run's loop
Caught_Rethrown(acc) == [acc EXCEPT !.threw = @ + 1, !.aborted = TRUE]

\* catch (err) { console.error(...) }
Caught(acc) == [acc EXCEPT !.threw = @ + 1]

\* faulty variant: a fragment that fails to parse is kept
Dropped_Never(dueDate) == FALSE

\* if (!dueDate) { console.warn(...); return }
Dropped(dueDate) == ~dueDate.ok

\* the href of a table row: built from the course and the assignment id,
\* else the row's anchor, else a stub on the page's URL
RowHref(page, row, idx) ==
  IF row.assignmentId # "" /\ page.courseId # ""
  THEN [threw |-> FALSE,
        href |-> ResolveUrl(page.site, <<"/", "courses", "/", page.courseId, "/",
                                         "assignments", "/", row.assignmentId>>)]
  ELSE IF row.href # << >>
  THEN IF StartsWithHttp(row.href) THEN [threw |-> FALSE, href |-> row.href]
       ELSE IF UrlThrows(row.href) THEN [threw |-> TRUE, href |-> << >>]
       ELSE [threw |-> FALSE, href |-> ResolveUrl(page.site, row.href)]
  ELSE [threw |-> FALSE,
        href |-> Location(page.site)
                   \o <<"#", IF row.assignmentId # ""
                             THEN "gradescope-assignment-" \o row.assignmentId
                             ELSE "gradescope-row-" \o ToString(idx)>>]

GradescopeItem(row, title, dueDate, href) ==
  [id |-> "gradescope-" \o Sanitize(href), title |-> title, dueDate |-> dueDate,
   course |-> CourseName, link |-> href, source |-> "Gradescope", of |-> row]

\* the body of rows.forEach((row, idx) => ...), idx counted from 1
ScrapeRow(page, row, idx, acc) ==
  LET title == IF row.title # "" THEN row.title ELSE "Assignment " \o ToString(idx)
      dueDate == parseDateString("gradescope", row.dueDateText, ScrapeClock, ScrapeZone,
                                 ScrapeLegacy)
      link == RowHref(page, row, idx)
  IN IF row.dueDateText = << >> THEN acc
     ELSE IF Dropped(dueDate) THEN acc
     ELSE IF link.threw THEN Caught(acc)
     ELSE IF link.href \in acc.seen THEN acc
     ELSE [acc EXCEPT !.seen = @ \cup {link.href},
                      !.items = Append(@, GradescopeItem(row, title, dueDate, link.href))]

RECURSIVE ScrapeRows(_, _, _, _)
\* rows.forEach from row idx on
ScrapeRows(page, rows, idx, acc) ==
  IF idx > Len(rows) \/ acc.aborted THEN acc
  ELSE ScrapeRows(page, rows, idx + 1, ScrapeRow(page, rows[idx], idx, acc))

\* the body of the loop over the anchors, i counted from 1
ScrapeAnchor(page, a, i, acc) ==
  LET href == IF StartsWithHttp(a.href) THEN a.href ELSE ResolveUrl(page.site, a.href)
      title == IF a.title # "" THEN a.title ELSE "Assignment " \o ToString(i)
      dueDate == parseDateString("gradescope", a.dueDateText, ScrapeClock, ScrapeZone,
                                 ScrapeLegacy)
      noted == [acc EXCEPT !.seen = @ \cup {href}]
  IN IF ~StartsWithHttp(a.href) /\ UrlThrows(a.href) THEN Caught(acc)
     ELSE IF href \in acc.seen THEN acc
     ELSE IF a.dueDateText = << >> THEN noted
     ELSE IF Dropped(dueDate) THEN noted
     ELSE [noted EXCEPT !.items = Append(@, GradescopeItem(a, title, dueDate, href))]

RECURSIVE ScrapeAnchors(_, _, _, _)
ScrapeAnchors(page, anchors, i, acc) ==
  IF i > Len(anchors) \/ acc.aborted THEN acc
  ELSE ScrapeAnchors(page, anchors, i + 1, ScrapeAnchor(page, anchors[i], i, acc))

\* document.querySelectorAll('a[href*="/assignments/"], ...')
AnchorsOf(page) == SelectSeq(page.rows, LAMBDA c : c.href # << >>)

\* scrapeGradescope(): the table's rows, and the anchors when they gave nothing
scrapeGradescope(page) ==
  LET fromTable == IF page.table THEN ScrapeRows(page, page.rows, 1, NoItems) ELSE NoItems
  IN IF fromTable.items = << >> /\ ~fromTable.aborted
     THEN ScrapeAnchors(page, AnchorsOf(page), 1, fromTable)
     ELSE fromTable

\* the link of an assessment element: its anchor's, else the page's URL
ElementLink(page, element) ==
  IF element.href = << >> THEN [threw |-> FALSE, href |-> Location(page.site)]
  ELSE IF StartsWithHttp(element.href) THEN [threw |-> FALSE, href |-> element.href]
  ELSE IF UrlThrows(element.href) THEN [threw |-> TRUE, href |-> << >>]
  ELSE [threw |-> FALSE, href |-> ResolveUrl(page.site, element.href)]

\* the body of the loop over assessmentElements
ScrapeElement(page, element, i, acc) ==
  LET dueDate == parseDateString("prairielearn", element.dueDateText, ScrapeClock, ScrapeZone,
                                 ScrapeLegacy)
      link == ElementLink(page, element)
  IN IF element.dueDateText = << >> THEN acc
     ELSE IF Dropped(dueDate) THEN acc
     ELSE IF link.threw THEN Caught(acc)
     ELSE [acc EXCEPT !.items =
             Append(@, [id |-> "prairielearn-" \o Sanitize(link.href),
                        title |-> element.title, dueDate |-> dueDate, course |-> CourseName,
                        link |-> link.href, source |-> "PrairieLearn",
                        pastDue |-> dueDate.t < ScrapeClock, of |-> element])]

RECURSIVE ScrapeElements(_, _, _, _)
ScrapeElements(page, elements, i, acc) ==
  IF i > Len(elements) \/ acc.aborted THEN acc
  ELSE ScrapeElements(page, elements, i + 1, ScrapeElement(page, elements[i], i, acc))

scrapePrairieLearn(page) == ScrapeElements(page, page.rows, 1, NoItems)

\* the content script of the page's site
Scrape(page) ==
  IF page.site = "Gradescope" THEN scrapeGradescope(page) ELSE scrapePrairieLearn(page)

(***************************************************************************)
(* SpecExtract: the content script runs on a page, the site adds or        *)
(* removes an assignment once, and the script runs on the page again.      *)
(***************************************************************************)
InitExtract ==
  /\ InitBackground
  /\ parse = NoParse
  /\ popup = NoPopup
  /\ tabs = NoTabs
  /\ run \in { [site |-> page.site, page |-> page, phase |-> "loaded", again |-> FALSE,
                first |-> << >>, items |-> << >>, threw |-> 0, sent |-> FALSE] :
               page \in Pages }

\* the script runs when the page has loaded, and sends what it found
RunContentScript ==
  /\ run.phase = "loaded"
  /\ \E found \in {Scrape(run.page)} :
       run' = [run EXCEPT !.phase = "scraped",
                          !.first = IF run.again THEN @ ELSE found.items,
                          !.items = found.items,
                          !.threw = found.threw,
                          !.sent = TRUE]
  /\ UNCHANGED <<bvars, parse, popup, tabs>>

\* the site lists one more assignment, above the others, and the page reloads
SiteAddsAssignment ==
  \E c \in AllCandidates(run.site) :
    /\ run.phase = "scraped" /\ ~run.again
    /\ \A i \in DOMAIN run.page.rows : run.page.rows[i].of # c.of
    /\ Len(run.page.rows) < MaxRows
    /\ run' = [run EXCEPT !.phase = "loaded", !.again = TRUE, !.sent = FALSE,
                          !.page.rows = <<c>> \o run.page.rows]
    /\ UNCHANGED <<bvars, parse, popup, tabs>>

\* the site lists one assignment fewer, and the page reloads
SiteRemovesAssignment ==
  \E i \in DOMAIN run.page.rows :
    /\ run.phase = "scraped" /\ ~run.again
    /\ run' = [run EXCEPT !.phase = "loaded", !.again = TRUE, !.sent = FALSE,
                          !.page.rows = SubSeq(run.page.rows, 1, i - 1)
                                          \o SubSeq(run.page.rows, i + 1, Len(run.page.rows))]
    /\ UNCHANGED <<bvars, parse, popup, tabs>>

NextExtract ==
  \/ RunContentScript
  \/ SiteAddsAssignment
  \/ SiteRemovesAssignment

SpecExtract == InitExtract /\ [][NextExtract]_vars

(***************************************************************************)
(* SpecPopup: the popup is opened over a stored collection; the user       *)
(* changes done checkboxes, presses Undo and switches the filter, while    *)
(* storage.local may reject and the background script may not answer.      *)
(***************************************************************************)
\* no snackbar is shown
NoSnackbar == [text |-> "", undo |-> FALSE, id |-> NoSuchId, done |-> FALSE, row |-> 0]

\* the items of the current view: the Done view shows the records whose done
\* is truthy, the Upcoming view the others (overdue and upcoming)
FilteredItems(allItems, currentFilter) ==
  SortByDue(SelectSeq(allItems, LAMBDA item : Truthy(item, "done") <=> currentFilter = "done"))

\* createListItem(item): the checkbox and the done styling of the row
createListItem(item) ==
  [id |-> item.id, checked |-> Truthy(item, "done"), doneUi |-> Truthy(item, "done")]

\* renderList(): the rows the list shows; none when the view is empty. The
\* rows are new elements: the Undo of the snackbar keeps the old ones
renderList(p) ==
  LET filteredItems == FilteredItems(p.allItems, p.currentFilter)
  IN [p EXCEPT !.rows = [k \in DOMAIN filteredItems |-> createListItem(filteredItems[k])],
               !.snackbar.row = 0]

\* doneCheckbox.checked = done; setItemDoneUi(li, titleDiv, done)
SetRow(rows, k, done) ==
  IF k \in DOMAIN rows THEN [rows EXCEPT ![k].checked = done, ![k].doneUi = done] ELSE rows

\* the stored collections the popup is opened over: no notification sent yet
InitPopup ==
  /\ InitCall
  /\ now = 0
  /\ store.settings = DEFAULT_SETTINGS
  /\ \A k \in DOMAIN store.items :
       /\ "notificationSent" \notin DOMAIN store.items[k]
       /\ store.items[k].title = "HW1"
  /\ badge = BadgeCount(store, now)

\* DOMContentLoaded: loadDeadlines() with the answer to GET_DATA
OpenPopup ==
  /\ ~popup.open
  /\ popup' = renderList([open |-> TRUE, allItems |-> getStorageData.items,
                          currentFilter |-> "upcoming", rows |-> << >>,
                          snackbar |-> NoSnackbar, reload |-> FALSE, last |-> "none"])
  /\ UNCHANGED <<bvars, parse, run, tabs>>

\* setFilter(filter)
SetFilter ==
  \E filter \in {"upcoming", "done"} :
    /\ popup.open
    /\ filter # popup.currentFilter
    /\ popup' = renderList([popup EXCEPT !.currentFilter = filter])
    /\ UNCHANGED <<bvars, parse, run, tabs>>

\* the listener of DATA_UPDATED: loadDeadlines()
ReloadOnDataUpdated ==
  /\ popup.open
  /\ popup.reload
  /\ popup' = renderList([popup EXCEPT !.allItems = getStorageData.items, !.reload = FALSE])
  /\ UNCHANGED <<bvars, parse, run, tabs>>

\* the TOGGLE_ITEM_DONE branch of the background's listener, called by the
\* popup's sendMessage
AnswerToggleItemDone(id, done, readFails, writeFails) ==
  /\ toggleItemDoneOnFailure(id, done, readFails, writeFails)
  /\ HandledStore([type |-> "TOGGLE_ITEM_DONE", id |-> id, done |-> done,
                   readFails |-> readFails, writeFails |-> writeFails],
                  ToggleEffectsOnFailure(writeFails))

\* the change listener of a row's checkbox; sendMessage rejects only when
\* no listener answers (the background script is not running)
ChangeDoneCheckbox ==
  /\ popup.open
  /\ \E k \in DOMAIN popup.rows, answered \in BOOLEAN, readFails \in BOOLEAN,
        writeFails \in BOOLEAN :
    LET newDone == ~popup.rows[k].checked
        id == popup.rows[k].id
    IN /\ IF answered
          THEN /\ AnswerToggleItemDone(id, newDone, readFails, writeFails)
               /\ popup' = [popup EXCEPT
                    !.rows = SetRow(@, k, newDone),
                    !.snackbar = [text |-> IF newDone THEN "Marked done" ELSE "Marked undone",
                                  undo |-> TRUE, id |-> id, done |-> ~newDone, row |-> k],
                    !.reload = @ \/ ~writeFails,
                    !.last = "answered"]
          ELSE /\ ~readFails /\ ~writeFails
               /\ popup' = [popup EXCEPT
                    !.rows = SetRow(@, k, ~newDone),
                    !.snackbar = [NoSnackbar EXCEPT !.text = "Failed to update; try again"],
                    !.last = "rejected"]
               /\ UNCHANGED bvars
       /\ UNCHANGED <<parse, run, tabs>>

\* the Undo button of the snackbar: the callback, then hideSnackbar()
ClickUndo ==
  \E answered \in BOOLEAN, readFails \in BOOLEAN, writeFails \in BOOLEAN :
    /\ popup.open
    /\ popup.snackbar.undo
    /\ IF answered
       THEN /\ AnswerToggleItemDone(popup.snackbar.id, popup.snackbar.done, readFails,
                                    writeFails)
            /\ popup' = [popup EXCEPT
                 !.rows = SetRow(@, popup.snackbar.row, popup.snackbar.done),
                 !.snackbar = NoSnackbar,
                 !.reload = @ \/ ~writeFails,
                 !.last = "answered"]
       ELSE /\ ~readFails /\ ~writeFails
            /\ popup' = [popup EXCEPT
                 !.rows = SetRow(@, popup.snackbar.row, popup.snackbar.done),
                 !.snackbar = NoSnackbar,
                 !.last = "rejected"]
            /\ UNCHANGED bvars
    /\ UNCHANGED <<parse, run, tabs>>

\* the timer of showSnackbar: hideSnackbar()
HideSnackbar ==
  /\ popup.open
  /\ popup.snackbar # NoSnackbar
  /\ popup' = [popup EXCEPT !.snackbar = NoSnackbar]
  /\ UNCHANGED <<bvars, parse, run, tabs>>

NextPopup ==
  \/ OpenPopup
  \/ SetFilter
  \/ ReloadOnDataUpdated
  \/ ChangeDoneCheckbox
  \/ ClickUndo
  \/ HideSnackbar

SpecPopup == InitPopup /\ [][NextPopup]_vars

(***************************************************************************)
(* SpecTabs: the course flows of OPEN_RECENT_SEMESTER_COURSES (Gradescope) *)
(* and OPEN_PRAIRIELEARN_COURSES, next to tabs the user opens.  Each step  *)
(* of a flow between two awaits is an action; a tab's record holds the     *)
(* position of the flow that opened it.                                    *)
(***************************************************************************)
\* the ids browser.tabs.create gives out, each once
TabIds == {1, 2}

\* const maxAttempts = 2
maxAttempts == 2

\* a tab that was never created
NoTab ==
  [by |-> "none", site |-> "none", pc |-> "none", attempt |-> 0, lastResult |-> -1,
   script |-> FALSE, auto |-> FALSE, handled |-> FALSE,
   closed |-> [by |-> "none", attempt |-> 0, scrapedCount |-> -1]]

InitTabs ==
  /\ InitBackground
  /\ parse = NoParse
  /\ run = NoRun
  /\ popup = NoPopup
  /\ tabs = [open |-> {}, tabsToCloseAfterScrape |-> {}, tab |-> [t \in TabIds |-> NoTab],
             messages |-> {}]

\* the id of the next tab
NextTabId == CHOOSE t \in TabIds : tabs.tab[t].by = "none" /\ \A u \in TabIds : u < t => tabs.tab[u].by # "none"

\* browser.tabs.remove(tabId) by the listener or a flow; it rejects when the
\* tab is gone, which every caller catches
RemoveTab(tb, t, by, scrapedCount) ==
  IF t \in tb.open
  THEN [tb EXCEPT !.open = @ \ {t},
                  !.tab[t].script = FALSE,
                  !.tab[t].closed = [by |-> by, attempt |-> tb.tab[t].attempt,
                                     scrapedCount |-> scrapedCount]]
  ELSE tb

\* tabsToCloseAfterScrape.delete(tabId)
Untrack(tb, t) == [tb EXCEPT !.tabsToCloseAfterScrape = @ \ {t}]

\* the batch of a result with scrapedCount records
ItemsOfResult(site, scrapedCount) ==
  IF scrapedCount = 0 THEN << >>
  ELSE << BaseRecord(IF site = "Gradescope" THEN "a" ELSE "b",
                     [title |-> "HW1", course |-> "CS 101", link |-> "https://x/hw1",
                      dueDate |-> 12 * SecondsPerHour]) >>

\* const courseTab = await browser.tabs.create({ url: link, active: false });
\* tabsToCloseAfterScrape.add(courseTab.id)
OpenCourseTab ==
  \E site \in Sites :
    /\ \E t \in TabIds : tabs.tab[t].by = "none"
    /\ tabs' = [tabs EXCEPT !.open = @ \cup {NextTabId},
                            !.tabsToCloseAfterScrape = @ \cup {NextTabId},
                            !.tab[NextTabId] = [NoTab EXCEPT !.by = "background", !.site = site,
                                                             !.pc = "loading"]]
    /\ UNCHANGED <<bvars, parse, run, popup>>

\* the user opens a course page of a site
UserOpensTab ==
  \E site \in Sites :
    /\ \E t \in TabIds : tabs.tab[t].by = "none"
    /\ tabs' = [tabs EXCEPT !.open = @ \cup {NextTabId},
                            !.tab[NextTabId] = [NoTab EXCEPT !.by = "user", !.site = site,
                                                             !.pc = "user"]]
    /\ UNCHANGED <<bvars, parse, run, popup>>

\* the user closes a tab
UserClosesTab ==
  \E t \in tabs.open :
    /\ tabs' = RemoveTab(tabs, t, "user", -1)
    /\ UNCHANGED <<bvars, parse, run, popup>>

\* await waitForTabComplete(courseTab.id, perTabTimeout): the page has loaded,
\* the wait has timed out, or the tab was removed; the flow goes on
WaitForTabComplete ==
  \E t \in TabIds :
    /\ tabs.tab[t].pc = "loading"
    /\ tabs' = [tabs EXCEPT !.tab[t].pc = "inject"]
    /\ UNCHANGED <<bvars, parse, run, popup>>

\* the tabs.onUpdated listener: a Gradescope course page has loaded
AutoInject ==
  \E t \in tabs.open, ok \in BOOLEAN :
    /\ tabs.tab[t].site = "Gradescope"
    /\ ~tabs.tab[t].auto
    /\ tabs' = [tabs EXCEPT !.tab[t].auto = TRUE, !.tab[t].script = @ \/ ok]
    /\ UNCHANGED <<bvars, parse, run, popup>>

\* handleRefresh() of the popup on the active tab, a page of a site
HandleRefresh ==
  \E t \in tabs.open, ok \in BOOLEAN :
    /\ tabs.tab[t].by = "user"
    /\ tabs' = [tabs EXCEPT !.tab[t].script = @ \/ ok]
    /\ UNCHANGED <<bvars, parse, run, popup>>

\* safeExecuteScript resolves: the tab exists and executeScript succeeded at
\* the first or the second try
Injected(t, ok) == t \in tabs.open /\ ok

\* the Gradescope flow: await safeExecuteScript(...), its error logged
InjectGradescope ==
  \E t \in TabIds, ok \in BOOLEAN :
    /\ tabs.tab[t].pc = "inject"
    /\ tabs.tab[t].site = "Gradescope"
    /\ tabs' = [tabs EXCEPT !.tab[t].pc = "done",
                            !.tab[t].script = @ \/ Injected(t, ok)]
    /\ UNCHANGED <<bvars, parse, run, popup>>

\* where the PrairieLearn loop goes after an attempt without items
NextAttempt(attempt) == IF attempt < maxAttempts THEN "inject" ELSE "after"

\* the PrairieLearn flow: attempt++, await safeExecuteScript(...)
InjectPrairieLearn ==
  \E t \in TabIds, ok \in BOOLEAN :
    /\ tabs.tab[t].pc = "inject"
    /\ tabs.tab[t].site = "PrairieLearn"
    /\ tabs' = [tabs EXCEPT
                  !.tab[t].attempt = @ + 1,
                  !.tab[t].script = @ \/ Injected(t, ok),
                  !.tab[t].pc = IF Injected(t, ok) THEN "waiting"
                                ELSE NextAttempt(tabs.tab[t].attempt + 1)]
    /\ UNCHANGED <<bvars, parse, run, popup>>

\* the content script has run in the tab and sends SCRAPE_RESULT with
\* scrapeComplete: true; waitForScrapeResultFromTab resolves with it
ContentScriptSends ==
  \E t \in tabs.open, scrapedCount \in {0, 1} :
    /\ tabs.tab[t].script
    /\ tabs' = [tabs EXCEPT
                  !.tab[t].script = FALSE,
                  !.messages = @ \cup {[tab |-> t, scrapeComplete |-> TRUE,
                                        scrapedCount |-> scrapedCount]},
                  !.tab[t].lastResult = IF tabs.tab[t].pc = "waiting" THEN scrapedCount ELSE @,
                  !.tab[t].pc = IF @ = "waiting" THEN "result" ELSE @]
    /\ UNCHANGED <<bvars, parse, run, popup>>

\* waitForScrapeResultFromTab rejects after its timeout
WaitTimesOut ==
  \E t \in TabIds :
    /\ tabs.tab[t].pc = "waiting"
    /\ tabs' = [tabs EXCEPT !.tab[t].pc = NextAttempt(tabs.tab[t].attempt)]
    /\ UNCHANGED <<bvars, parse, run, popup>>

\* the loop after const res = await waitForScrapeResultFromTab(...)
AfterResult ==
  \E t \in TabIds :
    /\ tabs.tab[t].pc = "result"
    /\ tabs' = IF tabs.tab[t].lastResult > 0
               THEN [RemoveTab(Untrack(tabs, t), t, "flow", tabs.tab[t].lastResult)
                       EXCEPT !.tab[t].pc = "done"]
               ELSE [tabs EXCEPT !.tab[t].pc = NextAttempt(tabs.tab[t].attempt)]
    /\ UNCHANGED <<bvars, parse, run, popup>>

\* after the attempts: the tab is closed when no result had items and the
\* tab is still tracked
AfterAttempts ==
  \E t \in TabIds :
    /\ tabs.tab[t].pc = "after"
    /\ tabs' = IF tabs.tab[t].lastResult <= 0 /\ t \in tabs.tabsToCloseAfterScrape
               THEN [RemoveTab(Untrack(tabs, t), t, "flow", tabs.tab[t].lastResult)
                       EXCEPT !.tab[t].pc = "done"]
               ELSE [tabs EXCEPT !.tab[t].pc = "done"]
    /\ UNCHANGED <<bvars, parse, run, popup>>

\* faulty variant: every completed scrape closes its tab
ClosesAfterScrape_AnyTab(message, tracked) == message.scrapeComplete

\* message.scrapeComplete && sender && sender.tab &&
\* tabsToCloseAfterScrape.has(sender.tab.id)
ClosesAfterScrape(message, tracked) == message.scrapeComplete /\ message.tab \in tracked

\* the SCRAPE_RESULT branch of the listener: handleScrapeResult, then the
\* tab is closed when it is tracked
ReceiveScrapeResult ==
  \E message \in tabs.messages :
    LET t == message.tab
        newItems == ItemsOfResult(tabs.tab[t].site, message.scrapedCount)
        received == [tabs EXCEPT !.messages = @ \ {message}, !.tab[t].handled = TRUE]
    IN /\ handleScrapeResult(newItems)
       /\ HandledStore([type |-> "SCRAPE_RESULT", items |-> newItems], ScrapeEffects)
       /\ tabs' = IF ClosesAfterScrape(message, tabs.tabsToCloseAfterScrape)
                  THEN RemoveTab(Untrack(received, t), t, "listener", message.scrapedCount)
                  ELSE received
       /\ UNCHANGED <<parse, run, popup>>

NextTabs ==
  \/ OpenCourseTab
  \/ UserOpensTab
  \/ UserClosesTab
  \/ WaitForTabComplete
  \/ AutoInject
  \/ HandleRefresh
  \/ InjectGradescope
  \/ InjectPrairieLearn
  \/ ContentScriptSends
  \/ WaitTimesOut
  \/ AfterResult
  \/ AfterAttempts
  \/ ReceiveScrapeResult

SpecTabs == InitTabs /\ [][NextTabs]_vars

(***************************************************************************)
(* Properties                                                              *)
(***************************************************************************)
IsScrape == request.type \in {"SCRAPE_RESULT", "SCRAPE_RESULT again"}

\* the batch carries a record with this id whose done is false or absent
CarriesNotDone(newItems, id) ==
  \E k \in DOMAIN newItems : newItems[k].id = id /\ ~Truthy(newItems[k], "done")

\* C1 (SpecReconcile). Sticky done: when the collection handleScrapeResult
\* read has a record with id i and done = true, and the batch carries a record
\* with id i whose done is false or absent, the record stored for i after the
\* delivery has done = true.
C1_StickyDone ==
  IsScrape =>
    \A i \in Ids :
      (Stored(before, i) /\ Truthy(ItemOf(before, i), "done")
         /\ CarriesNotDone(request.items, i))
      => (Stored(store, i) /\ Truthy(ItemOf(store, i), "done"))

\* a done record was re-scraped with done = false and with done absent, in a
\* batch that changed its title
C1_Witness ==
  /\ request.type = "SCRAPE_RESULT"
  /\ Stored(before, "a") /\ Truthy(ItemOf(before, "a"), "done")
  /\ ItemOf(before, "a").title = "HW1 (old)"
  /\ Len(request.items) = 2
  /\ request.items[1].id = "a" /\ "done" \notin DOMAIN request.items[1]
  /\ request.items[2].id = "a" /\ "done" \in DOMAIN request.items[2]
  /\ request.items[2].done = FALSE
  /\ ItemOf(store, "a").title = "HW1" /\ Truthy(ItemOf(store, "a"), "done")

\* C2 (SpecAsync). Each event is handled to completion before the next, so
\* once the scrape deliveries begun have all completed, the collection holds
\* a record for every id they delivered (no record is destroyed in SpecAsync:
\* it has no clear-all and no retention sweep).
C2_NoLostDelivery == inflight = {} => scraped \subseteq IdsOf(store.items)

\* C3 (Spec). notificationSent is monotonic: a step that leaves a record with
\* id i stored leaves its notificationSent true when it was true before.
C3_NotificationSentMonotonic ==
  [][\A i \in Ids :
       (Stored(store, i) /\ Truthy(ItemOf(store, i), "notificationSent")
          /\ Stored(store', i))
       => Truthy(ItemOf(store', i), "notificationSent")]_vars

\* Record b gets notificationSent only from a tick (no message carries it for
\* b).  At the first instant, due in 36 h with a 24 h window, b was notified
\* either under a wider window that a settings update has since narrowed, or
\* as the record due in 12 h that a scrape has since replaced: the flag has
\* lived through a later handler, and through a toggle-done (done is false).
C3_Witness ==
  /\ now = 0
  /\ store.settings.notificationHours = 24
  /\ Stored(store, "b")
  /\ ItemOf(store, "b").dueDate = 36 * SecondsPerHour
  /\ Truthy(ItemOf(store, "b"), "notificationSent")
  /\ "done" \in DOMAIN ItemOf(store, "b")
  /\ ~ItemOf(store, "b").done

\* C4 (Spec). No repeat: once a record has had notificationSent = true, no
\* tick delivers a notification for its id for as long as the record stays
\* stored with the same dueDate, whatever the settings have become.
C4_NoRepeat == [][\A i \in Ids : sentSince[i] => i \notin delivered']_vars

\* The last step was a tick (it delivered for a) under the widened 48 h window;
\* b, due in 36 h and so inside the window only since the widening, already
\* had notificationSent (the tick would have listed it in delivered otherwise)
\* and was passed over.
C4_Witness ==
  /\ delivered = {"a"}
  /\ now = 0
  /\ store.settings.notificationHours = 48
  /\ Stored(store, "b")
  /\ ItemOf(store, "b").dueDate = 36 * SecondsPerHour
  /\ Truthy(ItemOf(store, "b"), "notificationSent")
  /\ sentSince["b"]

\* the same records, each as often
SameRecords(s, t) ==
  /\ Len(s) = Len(t)
  /\ \A r \in { s[k] : k \in DOMAIN s } \cup { t[k] : k \in DOMAIN t } :
       Cardinality({ k \in DOMAIN s : s[k] = r }) = Cardinality({ k \in DOMAIN t : t[k] = r })

\* C5 (SpecReconcile). Idempotence: the second delivery of a batch leaves the
\* collection (items, their order, settings) as the first delivery left it;
\* and a collection delivered as the batch against itself is unchanged up to
\* order.
C5_Idempotent ==
  /\ request.type = "SCRAPE_RESULT again" => store = before
  /\ (request.type = "SCRAPE_RESULT" /\ request.items = before.items)
       => SameRecords(store.items, before.items)

\* a batch of two records for a stored done record was delivered twice; the
\* first delivery had changed the collection
C5_Witness ==
  /\ request.type = "SCRAPE_RESULT again"
  /\ Len(request.items) = 2
  /\ Len(store.items) = 2
  /\ \E k \in DOMAIN request.items :
       /\ ~Truthy(request.items[k], "done")
       /\ Truthy(ItemOf(store, request.items[k].id), "done")
  /\ \E k \in DOMAIN request.items : ItemOf(store, request.items[k].id) # request.items[k]

\* the value of a flag, with absent told from false
FlagOf(r, f) == IF f \in DOMAIN r THEN <<r[f]>> ELSE <<>>

\* C6 (SpecReconcile). For every incoming record whose id matches an existing
\* record, the merged record's done and notificationSent are the existing
\* record's values, whatever the incoming record carries.
C6_FlagsFromExisting ==
  request.type = "SCRAPE_RESULT" =>
    \A i \in IdsOf(request.items) :
      Stored(before, i) =>
        \A f \in {"done", "notificationSent"} :
          FlagOf(ItemOf(store, i), f) = FlagOf(ItemOf(before, i), f)

\* the last record of the batch with this id
LastIncoming(newItems, id) ==
  newItems[CHOOSE k \in DOMAIN newItems :
             newItems[k].id = id /\ \A j \in DOMAIN newItems : newItems[j].id = id => j <= k]

OccursOnce(newItems, id) == Cardinality({ k \in DOMAIN newItems : newItems[k].id = id }) = 1

ScrapedFields == {"title", "dueDate", "course", "link", "source"}

\* C7 (SpecReconcile). handleScrapeResult produces exactly one record per id
\* of existing and incoming together; an existing record with no incoming
\* match is kept unchanged; a matched record takes title, dueDate, course,
\* link and source from the incoming record (the last one with that id when
\* the batch repeats the id); an incoming record with a new id, which the
\* batch carries once, is stored as delivered.
C7_MergeById ==
  request.type = "SCRAPE_RESULT" =>
    /\ IdsOf(store.items) = IdsOf(before.items) \cup IdsOf(request.items)
    /\ Len(store.items) = Cardinality(IdsOf(store.items))
    /\ \A k \in DOMAIN before.items :
         before.items[k].id \notin IdsOf(request.items)
         => ItemOf(store, before.items[k].id) = before.items[k]
    /\ \A i \in IdsOf(request.items) :
         /\ \A f \in ScrapedFields : ItemOf(store, i)[f] = LastIncoming(request.items, i)[f]
         /\ (~Stored(before, i) /\ OccursOnce(request.items, i))
              => ItemOf(store, i) = LastIncoming(request.items, i)

\* existing {a, 'HW1 (old)', done, notified} and an unmatched b, merged with
\* incoming {a, 'HW1', done: false}, give {a, 'HW1', done, notified} and b
C7_Witness ==
  /\ request.type = "SCRAPE_RESULT"
  /\ Len(before.items) = 2
  /\ Stored(before, "b")
  /\ Stored(before, "a")
  /\ ItemOf(before, "a").title = "HW1 (old)"
  /\ Truthy(ItemOf(before, "a"), "done")
  /\ Truthy(ItemOf(before, "a"), "notificationSent")
  /\ Len(request.items) = 1
  /\ request.items[1].id = "a"
  /\ request.items[1].title = "HW1"
  /\ "done" \in DOMAIN request.items[1] /\ ~request.items[1].done
  /\ ItemOf(store, "a") =
       [request.items[1] EXCEPT !.done = TRUE, !.notificationSent = TRUE]
  /\ ItemOf(store, "b") = ItemOf(before, "b")

\* C8 (Spec). From the empty default collection, after any sequence of scrape
\* deliveries (batches may repeat an id), toggles, settings updates, ticks and
\* retention sweeps, no two stored records have the same id.
C8_UniqueIds ==
  \A j, k \in DOMAIN store.items : j # k => store.items[j].id # store.items[k].id

\* two records are stored; b has been toggled and notified, the settings
\* changed and the clock moved on
C8_Witness ==
  /\ Len(store.items) = 2
  /\ Truthy(ItemOf(store, "b"), "done")
  /\ Truthy(ItemOf(store, "b"), "notificationSent")
  /\ ~store.settings.notificationsEnabled
  /\ now = 18 * SecondsPerHour

\* C9 (Spec). The stored items are in ascending dueDate order after every
\* scrape delivery and after every toggle, settings update, tick and sweep
\* that follows.
C9_SortedByDueDate ==
  \A j, k \in DOMAIN store.items : j < k => store.items[j].dueDate <= store.items[k].dueDate

\* two records with different due dates are stored in ascending order,
\* after b was notified by a tick at the first instant and then marked not
\* done by a toggle, and the clock moved on
C9_Witness ==
  /\ now = 18 * SecondsPerHour
  /\ Len(store.items) = 2
  /\ store.items[1].id = "b"
  /\ store.items[1].dueDate = 12 * SecondsPerHour
  /\ Truthy(store.items[1], "notificationSent")
  /\ "done" \in DOMAIN store.items[1] /\ ~store.items[1].done
  /\ store.items[2].id = "a"
  /\ store.items[2].dueDate = 36 * SecondsPerHour

\* C10 (SpecCall). Toggle-done(id, value) sets done = value on the record
\* with that id and changes nothing else: its other fields, the other
\* records, the order of the items and the settings are as before; for an id
\* that is not stored, items and settings are as before.
C10_ToggleFrame ==
  request.type = "TOGGLE_ITEM_DONE" =>
    /\ store.settings = before.settings
    /\ DOMAIN store = DOMAIN before
    /\ Len(store.items) = Len(before.items)
    /\ \A k \in DOMAIN before.items :
         IF before.items[k].id = request.id
           THEN /\ DOMAIN store.items[k] = DOMAIN before.items[k] \cup {"done"}
                /\ store.items[k].done = request.done
                /\ \A f \in DOMAIN before.items[k] \ {"done"} :
                     store.items[k][f] = before.items[k][f]
           ELSE store.items[k] = before.items[k]
    /\ ~Stored(before, request.id) => store = before

\* the second of two records, which had no done key, was marked done
C10_Witness ==
  /\ request.type = "TOGGLE_ITEM_DONE"
  /\ request.done
  /\ Len(before.items) = 2
  /\ before.items[2].id = request.id
  /\ "done" \notin DOMAIN before.items[2]
  /\ Truthy(store.items[2], "done")
  /\ Truthy(store.items[2], "notificationSent")
  /\ store.items[1] = before.items[1]

\* C11 (Spec). A stored record is destroyed only by clear-all or by the
\* retention sweep: a step after which an id that was stored is no longer
\* stored is a clear-all step or a sweep step, so scrape deliveries, toggles,
\* settings updates and ticks, handled one at a time, keep every stored id.
C11_DestroyedOnlyByClearOrSweep ==
  [][ ~(IdsOf(store.items) \subseteq IdsOf(store'.items))
        => (OnClearData \/ OnCleanupAlarm) ]_vars

\* both records have come through scrape deliveries, a toggle, a tick and a
\* settings update: each is still stored, "a" with its refreshed due date
C11_Witness ==
  /\ IdsOf(store.items) = Ids
  /\ Truthy(ItemOf(store, "a"), "done")
  /\ Truthy(ItemOf(store, "b"), "notificationSent")
  /\ ItemOf(store, "a").dueDate = 36 * SecondsPerHour
  /\ store.settings.notificationHours = 48
  /\ badge = 1

\* indices of the records of items that are due 30 days before t or later
NotOlderThan30Days(items, t) ==
  { k \in DOMAIN items : ~(items[k].dueDate < t - 30 * SecondsPerDay) }

\* C12 (SpecCall). The retention sweep removes exactly the records whose
\* dueDate is earlier than now - 30 days (a record due exactly 30 days ago
\* stays): the records it leaves are the others, each unchanged and in the
\* order they had, and the settings are unchanged.
C12_SweepRemovesOlderThan30Days ==
  request.type = "cleanup" =>
    LET kept == NotOlderThan30Days(before.items, now)
    IN /\ Len(store.items) = Cardinality(kept)
       /\ \A k \in kept :
            store.items[Cardinality({ j \in kept : j <= k })] = before.items[k]
       /\ store.settings = before.settings

\* a sweep at an instant when one record was due exactly 31 days ago and
\* the other exactly 30 days ago: the first is gone, the second is stored
C12_Witness ==
  /\ request.type = "cleanup"
  /\ Len(before.items) = 2
  /\ before.items[1].dueDate = now - 31 * SecondsPerDay
  /\ before.items[2].dueDate = now - 30 * SecondsPerDay
  /\ Truthy(before.items[2], "done")
  /\ store.items = <<before.items[2]>>
  /\ store.settings = [notificationsEnabled |-> FALSE, notificationHours |-> 48]

IsTick == request.type = "notificationCheck"

\* indices of the records of data that are due from t to t + notificationHours
\* hours, both ends included, and whose notificationSent is not true
DueUnnotified(data, t) ==
  { k \in DOMAIN data.items :
      /\ t <= data.items[k].dueDate
      /\ data.items[k].dueDate <= t + data.settings.notificationHours * SecondsPerHour
      /\ ~("notificationSent" \in DOMAIN data.items[k] /\ data.items[k].notificationSent) }

\* C13 (SpecCall). On a tick with notificationsEnabled true, a notification
\* keyed by the record's id is handed to the notifier for exactly the stored
\* records with now <= dueDate <= now + notificationHours hours whose
\* notificationSent is not true; when every delivery succeeds, exactly those
\* records have gained notificationSent = true and everything else in the
\* store is unchanged.
C13_TickNotifiesDueUnnotified ==
  (IsTick /\ before.settings.notificationsEnabled) =>
    LET due == DueUnnotified(before, now)
    IN /\ effects.attempted = { before.items[k].id : k \in due }
       /\ (request.failing \cap effects.attempted = {}) =>
            /\ delivered = effects.attempted
            /\ store.items =
                 [k \in DOMAIN before.items |->
                    IF k \in due THEN With(before.items[k], "notificationSent", TRUE)
                    ELSE before.items[k]]
            /\ store.settings = before.settings

\* a tick whose window starts at the due date of one record and ends at the
\* due date of the other: both are notified and flagged
C13_Witness ==
  /\ IsTick /\ request.failing = {}
  /\ before.settings = [notificationsEnabled |-> TRUE, notificationHours |-> 24]
  /\ Len(before.items) = 2
  /\ before.items[1].dueDate = now
  /\ before.items[2].dueDate = now + 24 * SecondsPerHour
  /\ "notificationSent" \notin DOMAIN before.items[1]
  /\ "notificationSent" \in DOMAIN before.items[2]
  /\ ~before.items[2].notificationSent
  /\ delivered = Ids
  /\ \A k \in 1..2 : Truthy(store.items[k], "notificationSent")

\* C14 (SpecCall). A record the tick selected and whose delivery failed is
\* treated as handled: it has notificationSent = true after the tick.
C14_FailedDeliveryHandled ==
  (IsTick /\ before.settings.notificationsEnabled) =>
    \A i \in request.failing \cap effects.attempted :
      Truthy(ItemOf(store, i), "notificationSent")

\* C15 (SpecCall). When the delivery fails for a selected record, every other
\* selected record is still delivered and flagged notificationSent = true, and
\* the tick's store write takes place.
C15_FailureDoesNotBlockOthers ==
  (IsTick /\ request.failing \cap effects.attempted # {}) =>
    /\ \A i \in effects.attempted \ request.failing :
         i \in delivered /\ Truthy(ItemOf(store, i), "notificationSent")
    /\ effects.wrote

\* two records selected, the delivery for the first one fails: the second is
\* delivered and flagged, and the collection is written
C15_Witness ==
  /\ IsTick /\ request.failing = {"a"}
  /\ effects.attempted = Ids
  /\ before.items[1].id = "a"
  /\ delivered = {"b"}
  /\ Truthy(ItemOf(store, "b"), "notificationSent")
  /\ ~Truthy(ItemOf(before, "b"), "notificationSent")
  /\ effects.wrote

\* C16 (SpecCall). A tick with notificationsEnabled false does nothing: no
\* notification is handed to the notifier, no store write is made, and the
\* store (every notificationSent with it) is as it was.
C16_DisabledTickIsNoOp ==
  (IsTick /\ ~before.settings.notificationsEnabled) =>
    /\ effects.attempted = {}
    /\ delivered = {}
    /\ ~effects.wrote
    /\ store = before

\* a disabled tick at an instant when both stored records are in the window
\* and not notified
C16_Witness ==
  /\ IsTick /\ request.failing = {}
  /\ ~before.settings.notificationsEnabled
  /\ before.settings.notificationHours = 48
  /\ now = 12 * SecondsPerHour - 1
  /\ Len(before.items) = 2
  /\ \A k \in 1..2 : ~Truthy(before.items[k], "notificationSent")
  /\ store = before

\* C17 (SpecCall). The badge count is the number of stored records with
\* now <= dueDate < now + 24 hours: a record due in 23 h 59 min 59 s is
\* counted, a record due at exactly now + 24 hours or later is not.
C17_BadgeCountsNext24Hours ==
  (request.type \in {"onInstalled", "cleanup"} /\ effects.setBadge) =>
    badge = Cardinality({ k \in DOMAIN store.items :
                            /\ now <= store.items[k].dueDate
                            /\ store.items[k].dueDate < now + 24 * SecondsPerHour })

\* C18 (SpecCall). After every store write that changes items (here a toggle,
\* a tick's flag updates, a sweep that removed records) the engine both
\* recomputes the badge and broadcasts DATA_UPDATED.
C18_WriteThenBadgeAndBroadcast ==
  (/\ request.type \in {"TOGGLE_ITEM_DONE", "notificationCheck", "cleanup"}
   /\ effects.wrote
   /\ store.items # before.items) =>
    (effects.setBadge /\ effects.broadcast)

\* C19 (SpecCall). After clear-all the items are empty, the settings are the
\* defaults (notificationsEnabled true, notificationHours 24) and the badge
\* count is 0 (the empty badge text).
C19_ClearAllResets ==
  request.type = "CLEAR_DATA" =>
    /\ store.items = <<>>
    /\ store.settings = [notificationsEnabled |-> TRUE, notificationHours |-> 24]
    /\ badge = 0

\* clear-all on a store of two records and settings that are not the defaults
C19_Witness ==
  /\ request.type = "CLEAR_DATA"
  /\ Len(before.items) = 2
  /\ before.settings = [notificationsEnabled |-> FALSE, notificationHours |-> 48]
  /\ store.items = <<>>
  /\ store.settings.notificationHours = 24
  /\ badge = 0

\* C20 (SpecCall). update-settings(partial) is a shallow merge: the stored
\* settings have the keys of the stored and of the partial settings, every
\* key of partial has the given value, every other key its stored value, and
\* the items are unchanged.
C20_SettingsShallowMerge ==
  request.type = "UPDATE_SETTINGS" =>
    /\ DOMAIN store.settings = DOMAIN before.settings \cup DOMAIN request.settings
    /\ \A k \in DOMAIN request.settings : store.settings[k] = request.settings[k]
    /\ \A k \in DOMAIN before.settings \ DOMAIN request.settings :
         store.settings[k] = before.settings[k]
    /\ store.items = before.items

\* a partial settings object with notificationHours only, on stored settings
\* with notifications switched off and two stored records
C20_Witness ==
  /\ request.type = "UPDATE_SETTINGS"
  /\ DOMAIN request.settings = {"notificationHours"}
  /\ before.settings = [notificationsEnabled |-> FALSE, notificationHours |-> 24]
  /\ store.settings = [notificationsEnabled |-> FALSE, notificationHours |-> 48]
  /\ Len(store.items) = 2

\* C21 (Spec). Settings change only through update-settings and clear-all:
\* a step after which the stored settings differ from the settings stored
\* before is an update-settings step or a clear-all step, so scrape
\* deliveries, toggles, ticks and sweeps leave them as they were.
C21_SettingsChangedOnlyByUpdateOrClear ==
  [][ store'.settings # store.settings => (OnUpdateSettings \/ OnClearData) ]_vars

\* settings that are not the defaults have come through scrape deliveries, a
\* toggle and, in the last step, a tick that notified
C21_Witness ==
  /\ store.settings = [notificationsEnabled |-> TRUE, notificationHours |-> 48]
  /\ delivered = {"b"}
  /\ IdsOf(store.items) = Ids
  /\ Truthy(ItemOf(store, "a"), "done")
  /\ now = 18 * SecondsPerHour

\* C22 (SpecFail). When the store read fails during a scrape delivery, a
\* toggle-done request or a settings update, the items and settings that were
\* persisted stay as they were.
C22_ReadFailureKeepsStore ==
  (/\ request.type \in {"SCRAPE_RESULT", "TOGGLE_ITEM_DONE", "UPDATE_SETTINGS"}
   /\ request.readFails) =>
    store = before

\* C23 (SpecFail). When the store write fails, toggle-done, update-settings
\* and clear-all each answer their caller with a failure indication, not
\* with success.
C23_WriteFailureReported ==
  (/\ request.type \in {"TOGGLE_ITEM_DONE", "UPDATE_SETTINGS", "CLEAR_DATA"}
   /\ request.writeFails) =>
    effects.reply = "false"

\* C29 (SpecCall). The notification message of a selected record states days
\* remaining when the time until due is at least one day, otherwise hours
\* remaining when it is at least one hour, otherwise "Due soon!".
C29_MessageByTimeUntilDue ==
  IsTick =>
    \A m \in effects.messages :
      LET timeUntilDue == ItemOf(before, m.id).dueDate - now
      IN IF timeUntilDue >= SecondsPerDay
           THEN m.timeMessage.phrase = "Due in" /\ m.timeMessage.unit \in {"day", "days"}
         ELSE IF timeUntilDue >= SecondsPerHour
           THEN m.timeMessage.phrase = "Due in" /\ m.timeMessage.unit \in {"hour", "hours"}
         ELSE m.timeMessage.phrase = "Due soon!"

\* C30 (SpecAsync). A done flag set by a toggle that has completed is not
\* lost to a scrape delivery in flight: when the scrape handler that read the
\* record writes, a record stored with done = true is still stored with
\* done = true.
C30_ToggledDoneSurvivesScrapeInFlight ==
  [][ EndScrapeResult =>
        \A i \in Ids :
          (Stored(before', i) /\ Stored(store, i) /\ Truthy(ItemOf(store, i), "done"))
          => (Stored(store', i) /\ Truthy(ItemOf(store', i), "done")) ]_vars

\* C27: a fragment with "today" or "tomorrow" and a clock time gives the day
\* of now, or the next, at that clock time.
C27_RelativeDayAtClockTime ==
  (parse.parser \in {"lib", "prairielearn"} /\ parse.called
     /\ parse.named.shape \in {"today", "tomorrow"} /\ parse.named.time.given)
  => /\ parse.result.ok
     /\ parse.result.t =
          MakeDate(getFullYear(parse.now), getMonth(parse.now),
                   getDate(parse.now) + (IF parse.named.shape = "tomorrow" THEN 1 ELSE 0),
                   parse.named.time.hours, parse.named.time.minutes, 0)

\* the day the fragment names exists in the year of now
NamesDayOfYear ==
  parse.named.cal.day <= DaysInMonth(getFullYear(parse.now), parse.named.cal.month)

\* the instant the fragment names in year y
NamedIn(y) ==
  MakeDate(y, parse.named.cal.month, parse.named.cal.day,
           parse.named.time.hours, parse.named.time.minutes, 0)

Unparseable(c, parser) ==
  ~parseDateString(parser, c.dueDateText, ScrapeClock, ScrapeZone, ScrapeLegacy).ok

ParserOf(site) == IF site = "Gradescope" THEN "gradescope" ELSE "prairielearn"

\* C24: every record of the batch has the instant its candidate's text
\* names, and a candidate whose text fails to parse has no record.
C24_EmittedDueDateIsValid ==
  run.phase = "scraped"
  => /\ \A i \in DOMAIN run.items :
          /\ run.items[i].dueDate.ok
          /\ run.items[i].dueDate.t >= ScrapeClock
     /\ \A j \in DOMAIN run.page.rows :
          Unparseable(run.page.rows[j], ParserOf(run.site))
            => \A i \in DOMAIN run.items : run.items[i].of # run.page.rows[j]

\* a page with a "TBD" candidate and a dated one has given one record
C24_Witness ==
  /\ run.phase = "scraped"
  /\ Len(run.page.rows) = 2
  /\ run.page.rows[1].dueDateText = <<W("TBD")>>
  /\ Len(run.items) = 1
  /\ run.items[1].of = run.page.rows[2]

\* C25: the records two runs of the script give for the same assignment,
\* shown the same way, have the same id.
C25_SameIdAcrossRuns ==
  (run.phase = "scraped" /\ run.again)
  => \A i \in DOMAIN run.first, j \in DOMAIN run.items :
       run.first[i].of = run.items[j].of => run.first[i].id = run.items[j].id

\* a candidate the script skips without an error, in the place of c
Benign(site, c) ==
  IF c.href # << >> /\ ~StartsWithHttp(c.href) /\ UrlThrows(c.href)
  THEN [c EXCEPT !.href = PathOf(site, 0), !.dueDateText = << >>]
  ELSE c

\* C26: the run sends its batch, and the batch is the one the page gives
\* with every candidate that raises an error replaced by one that the
\* script skips.
C26_ErrorConfinedToCandidate ==
  run.phase = "scraped"
  => /\ run.sent
     /\ run.items =
          Scrape([run.page EXCEPT
                    !.rows = [k \in DOMAIN run.page.rows |->
                                Benign(run.site, run.page.rows[k])]]).items

\* the first candidate raised an error and the second has its record
C26_Witness ==
  /\ run.phase = "scraped"
  /\ run.threw = 1
  /\ Len(run.page.rows) = 2
  /\ UrlThrows(run.page.rows[1].href)
  /\ Len(run.items) = 1
  /\ run.items[1].of = run.page.rows[2]

\* C31: a notificationSent flag that is stored when a scrape handler writes
\* is still stored after that write, also when the handler read the store
\* before the tick that set the flag wrote it.
C31_NotifiedSurvivesScrapeInFlight ==
  [][ EndScrapeResult => \A i \in Ids :
        (Stored(before', i) /\ Stored(store, i) /\ Truthy(ItemOf(store, i), "notificationSent"))
        => (Stored(store', i) /\ Truthy(ItemOf(store', i), "notificationSent")) ]_vars

\* the record r with done absent, false or true
DoneVariant(r, c) == WithFlag([k \in DOMAIN r \ {"done"} |-> r[k]], "done", c)

\* the collections that differ from data only in the done flags
DoneVariants(data) ==
  { [data EXCEPT !.items = [k \in DOMAIN data.items |-> DoneVariant(data.items[k], ch[k])]] :
      ch \in [DOMAIN data.items -> FlagChoices] }

\* C39 (SpecCall). A tick hands to the notifier the ids it would hand for
\* every collection that differs from the stored one only in the done flags,
\* and the badge a handler sets is the count updateBadge gives for every
\* such collection.
C39_DoneDoesNotInfluence ==
  /\ IsTick => \A other \in DoneVariants(before) :
                 effects.attempted = TickAttempted(other, now)
  /\ effects.setBadge => \A other \in DoneVariants(store) :
                           badge = BadgeCount(other, now)

\* a tick has notified a record that is marked done
C39_Witness ==
  /\ IsTick
  /\ \E k \in DOMAIN before.items :
       /\ Truthy(before.items[k], "done")
       /\ before.items[k].id \in delivered
       /\ before.items[k].id \in effects.attempted

\* C35: for a fragment of one of the four calendar shapes, with or without
\* a clock time, the parser inlined in an extractor returns the instant the
\* parseDateString of lib/date-parser.js returns.
C35_InlineParsersAgreeWithLib ==
  (parse.parser \in {"gradescope", "prairielearn"} /\ parse.called
     /\ parse.named.shape \in {"weekday", "monthday", "slash", "slashyear", "iso"})
  => parse.result = parseDateString("lib", parse.dateStr, parse.now, parse.tz, parse.legacy)

\* C33: no two records of one run's batch have the same id.
C33_IdsDistinctWithinRun ==
  run.sent =>
    \A i, j \in DOMAIN run.items : run.items[i].id = run.items[j].id => i = j

\* C34: two records of one source whose links differ have different ids.
C34_DifferentLinksDifferentIds ==
  run.sent =>
    \A i, j \in DOMAIN run.items :
      run.items[i].link # run.items[j].link => run.items[i].id # run.items[j].id

\* C32: after a toggle attempt, once the popup has reloaded on every
\* DATA_UPDATED it was sent, every row shows the done state that is stored
\* for its record, and a toggle the background failed to persist has left
\* the failure message in the snackbar.
C32_ShownDoneIsStoredDone ==
  (popup.open /\ popup.last # "none" /\ ~popup.reload) =>
    /\ \A k \in DOMAIN popup.rows :
         Stored(store, popup.rows[k].id) =>
           /\ popup.rows[k].checked = Truthy(ItemOf(store, popup.rows[k].id), "done")
           /\ popup.rows[k].doneUi = Truthy(ItemOf(store, popup.rows[k].id), "done")
    /\ (popup.last = "answered" /\ request.writeFails /\ popup.snackbar # NoSnackbar)
         => popup.snackbar.text = "Failed to update; try again"

\* the course tabs the PrairieLearn flow has opened
PrairieLearnCourseTabs ==
  { t \in TabIds : tabs.tab[t].by = "background" /\ tabs.tab[t].site = "PrairieLearn" }

\* C36: the background closes a course tab of the PrairieLearn flow only on
\* a result with items or after the last injection attempt, so a first
\* result with zero items leaves the tab open for the second attempt.
C36_ClosedOnlyAfterItemsOrLastAttempt ==
  \A t \in PrairieLearnCourseTabs :
    tabs.tab[t].closed.by \in {"listener", "flow"}
      => \/ tabs.tab[t].closed.scrapedCount > 0
         \/ tabs.tab[t].closed.attempt = maxAttempts

\* no flow has a step left, no injected script is still to run and no
\* SCRAPE_RESULT is still to be handled
TabsQuiescent ==
  /\ tabs.messages = {}
  /\ \A t \in TabIds :
       /\ tabs.tab[t].pc \in {"none", "user", "done"}
       /\ ~tabs.tab[t].script
       /\ (t \in tabs.open /\ tabs.tab[t].site = "Gradescope") => tabs.tab[t].auto

\* C37: when the flows, the content scripts and the listener have nothing
\* left to do, every course tab the background opened is closed and is no
\* longer in tabsToCloseAfterScrape.
C37_CourseTabsClosedAndUntracked ==
  TabsQuiescent =>
    \A t \in TabIds :
      tabs.tab[t].by = "background" => t \notin tabs.open /\ t \notin tabs.tabsToCloseAfterScrape

\* C38: the listener of SCRAPE_RESULT closes no tab the user opened: such a
\* tab stays open until the user closes it.
C38_ListenerClosesOnlyOwnTabs ==
  \A t \in TabIds :
    /\ tabs.tab[t].closed.by = "listener" => tabs.tab[t].by = "background"
    /\ tabs.tab[t].by = "user" =>
         IF t \in tabs.open THEN tabs.tab[t].closed.by = "none"
         ELSE tabs.tab[t].closed.by = "user"

\* the result of a tab of the user has been handled and the tab is open,
\* and the result of a course tab of a flow has closed that tab
C38_Witness ==
  \E t, u \in TabIds :
    /\ tabs.tab[t].by = "user" /\ tabs.tab[t].handled /\ t \in tabs.open
    /\ tabs.tab[u].by = "background" /\ tabs.tab[u].closed.by = "listener"

====
